---- MODULE Spec2Model ----
(***************************************************************************)
(* Order execution and position reconciliation of the Alertsify platform:  *)
(* the parent_trades / trades tables with their triggers, the server       *)
(* action placeOptionOrder, and the sync service that merges broker fills  *)
(* (webhook and poll) into the ledger; the copy-trade dispatcher that     *)
(* fans a trader's order out to the subscribers; the claim that           *)
(* deduplicates the trade alerts; and the poll cycle of the sync service   *)
(* over the brokerage accounts together with the webhook route.            *)
(* The subscription lifecycle, the validation of the input of           *)
(* placeOptionOrder, the expiration job of the positions and the retry    *)
(* loop of the sync service are specifications of their own.              *)
(*                                                                         *)
(* Granularity.  Every awaited database statement of a handler is a step   *)
(* of its own, so handlers interleave between statements.  A statement     *)
(* that writes a trades row runs the row triggers in its own transaction   *)
(* under PostgreSQL's default READ COMMITTED level: the trigger's SELECT   *)
(* sees the committed rows plus the statement's own row, takes no lock on  *)
(* the parent, and the row and the parent update become visible together  *)
(* at commit.  Such a statement is therefore two steps: the snapshot       *)
(* (BEFORE-trigger check, aggregate SELECT) and the commit.  Two           *)
(* statements on the same trades row are serialised by the row lock.       *)
(*                                                                         *)
(* Money is kept in cents (DECIMAL(15,2)); prices are whole dollars.       *)
(***************************************************************************)
EXTENDS Integers, Sequences, FiniteSets, Bags, TLC

\* ---------------------------------------------------------------- bounds
MaxTrades == 3
MaxParents == 1
MaxQty == 2
MaxPrice == 2

\* the request handlers that can run at the same time
Workers == {1, 2}

\* What one run explores: two handlers running concurrently over MaxTrades
\* orders at one price, starting from the empty ledger; or one handler at a
\* time over one order more at every price, starting from an open position
\* after a partial close (a filled buy and a filled sell of a part of it),
\* with room for one parent trade more.
Scopes ==
  {[workers |-> 2, trades |-> MaxTrades, parents |-> MaxParents, price |-> 1,
    opened |-> FALSE],
   [workers |-> 1, trades |-> MaxTrades + 1, parents |-> MaxParents + 1,
    price |-> MaxPrice, opened |-> TRUE]}

\* Each contract = 100 shares
Multiplier == 100

VARIABLES parents, trades, broker, wk, now, fx, ret, scope

\* the copy-trade dispatcher: the subscriptions table, the trades of the
\* traders and of their subscribers, the notifications sent, and the call
\* stack of each running fan-out
VARIABLES subs, orders, notifications, fan

\* the alert deduplication: the key-value store, the alert senders, and the
\* alerts sent
VARIABLES kv, aw, alerts

\* the sync service: the trades it reconciles with their brokerage account,
\* the orders as the broker holds them, the time in hours, the poll cycle,
\* the runs of onOrderFilled per trade, what was surfaced as unknown per
\* broker order id, and the last webhook request with its response
VARIABLES syncTrades, brokerOrders, clock, cycle, fired, surfaced, hook

\* a call of syncWithRetry: its position, its attempts and its waits
VARIABLES retry

ledgerVars == <<parents, trades, broker, wk, now, fx, ret, scope>>
copyVars == <<subs, orders, notifications, fan>>
alertVars == <<kv, aw, alerts>>
syncVars == <<syncTrades, brokerOrders, clock, cycle, fired, surfaced, hook, retry>>

vars == <<parents, trades, broker, wk, now, fx, ret, scope,
          subs, orders, notifications, fan, kv, aw, alerts,
          syncTrades, brokerOrders, clock, cycle, fired, surfaced, hook, retry>>

\* ------------------------------------------------------------ arithmetic
Max(a, b) == IF a >= b THEN a ELSE b

\* n / d rounded to the nearest integer, halves away from zero (numeric(15,2))
RoundDiv(n, d) ==
  IF n >= 0 THEN (2 * n + d) \div (2 * d) ELSE -((2 * (-n) + d) \div (2 * d))

RECURSIVE SumSeq(_)
SumSeq(s) == IF s = <<>> THEN 0 ELSE Head(s) + SumSeq(Tail(s))

\* ------------------------------------------------------------------ rows
\* a row of parent_trades (closedAt = 0 is NULL)
NewParent ==
  [status |-> "open", totalCostBasis |-> 0, totalProceeds |-> 0,
   totalPnl |-> 0, closedAt |-> 0]

\* a row of trades as placeOptionOrder inserts it (filledPrice = 0,
\* brokerOrderId = 0 and pnl = <<>> are NULL)
NewTrade(p, action, quantity) ==
  [parent |-> p, action |-> action, quantity |-> quantity,
   filledQuantity |-> 0, filledPrice |-> 0, status |-> "pending",
   pnl |-> <<>>, brokerOrderId |-> 0, source |-> "manual"]

\* the broker has no order for a trade until placeOrder reaches it
NoOrder == [status |-> "NONE", filledQuantity |-> 0, averagePrice |-> 0]

\* ------------------------------------------------- queries and triggers
IsFilledBuy(t, p) == t.parent = p /\ t.action = "buy" /\ t.status = "filled"
IsFilledSell(t, p) == t.parent = p /\ t.action = "sell" /\ t.status = "filled"
IsPendingSell(t, p) == t.parent = p /\ t.action = "sell" /\ t.status = "pending"

\* SUM(CASE WHEN action = 'buy' AND status = 'filled' THEN filled_quantity ...)
BoughtQty(ts, p) ==
  SumSeq([i \in 1..Len(ts) |-> IF IsFilledBuy(ts[i], p) THEN ts[i].filledQuantity ELSE 0])

SoldQty(ts, p) ==
  SumSeq([i \in 1..Len(ts) |-> IF IsFilledSell(ts[i], p) THEN ts[i].filledQuantity ELSE 0])

\* SUM(CASE WHEN action = 'sell' AND status = 'pending' THEN quantity ...)
PendingSellQty(ts, p) ==
  SumSeq([i \in 1..Len(ts) |-> IF IsPendingSell(ts[i], p) THEN ts[i].quantity ELSE 0])

\* filled_quantity * filled_price * 100, in cents
BoughtCost(ts, p) ==
  SumSeq([i \in 1..Len(ts) |->
            IF IsFilledBuy(ts[i], p)
            THEN ts[i].filledQuantity * ts[i].filledPrice * Multiplier * 100 ELSE 0])

SoldProceeds(ts, p) ==
  SumSeq([i \in 1..Len(ts) |->
            IF IsFilledSell(ts[i], p)
            THEN ts[i].filledQuantity * ts[i].filledPrice * Multiplier * 100 ELSE 0])

\* the oversell check without the pending sell reservations
calculateAvailableQuantity_NoPending(ts, p) ==
  Max(0, BoughtQty(ts, p) - SoldQty(ts, p))

\* the application's oversell check: Math.max(0, bought - sold - pendingSells)
calculateAvailableQuantity(ts, p) ==
  Max(0, BoughtQty(ts, p) - SoldQty(ts, p) - PendingSellQty(ts, p))

\* the BEFORE INSERT trigger: TRUE when it raises 'Cannot sell % contracts'.
\* ts holds the rows the trigger's SELECT sees (the new row is not among them).
check_oversell(ts, new) ==
  /\ new.action = "sell"
  /\ new.quantity > BoughtQty(ts, new.parent) - SoldQty(ts, new.parent)
                      - PendingSellQty(ts, new.parent)

\* the aggregate SELECT of update_parent_trade_aggregates
Aggregates(ts, p) ==
  [total_cost |-> BoughtCost(ts, p), total_proceeds |-> SoldProceeds(ts, p),
   bought_qty |-> BoughtQty(ts, p), sold_qty |-> SoldQty(ts, p)]

NoAgg == [total_cost |-> 0, total_proceeds |-> 0, bought_qty |-> 0, sold_qty |-> 0]

\* the UPDATE parent_trades of update_parent_trade_aggregates, at time "time"
update_parent_trade_aggregates(par, agg, time) ==
  LET full == agg.bought_qty > 0 /\ agg.bought_qty = agg.sold_qty IN
  [par EXCEPT !.totalCostBasis = agg.total_cost,
              !.totalProceeds = agg.total_proceeds,
              !.totalPnl = agg.total_proceeds - agg.total_cost,
              !.status = IF full THEN "closed" ELSE @,
              !.closedAt = IF full THEN time ELSE @]

\* the UPDATE with no WHERE clause: every row of parent_trades is written
UpdateParent_NoWhere(ps, parent_id, agg, time) ==
  [i \in 1..Len(ps) |-> update_parent_trade_aggregates(ps[i], agg, time)]

\* UPDATE parent_trades SET ... WHERE id = parent_id
UpdateParent(ps, parent_id, agg, time) ==
  [ps EXCEPT ![parent_id] = update_parent_trade_aggregates(@, agg, time)]

\* calculatePnL: proceeds - averageEntry * sellQuantity * 100, stored in
\* trades.pnl (cents); <<>> when there is no filled buy (0 / 0)
calculatePnL(ts, p, sellQuantity, sellPrice) ==
  LET totalCost == SumSeq([i \in 1..Len(ts) |->
                     IF IsFilledBuy(ts[i], p)
                     THEN ts[i].filledPrice * ts[i].filledQuantity ELSE 0])
      totalQuantity == BoughtQty(ts, p)
  IN IF totalQuantity = 0 THEN <<>>
     ELSE <<RoundDiv((sellPrice * totalQuantity - totalCost) * sellQuantity
                       * Multiplier * 100, totalQuantity)>>

\* allSells.reduce((sum, t) => sum + (t.pnl ?? 0), 0)
SumSellPnl(ts, p) ==
  SumSeq([i \in 1..Len(ts) |->
            IF IsFilledSell(ts[i], p) /\ ts[i].pnl # <<>> THEN ts[i].pnl[1] ELSE 0])

\* ---------------------------------------------------------------- state
ParentIds == 1..Len(parents)
TradeIds == 1..Len(trades)

\* a request handler that is not running
Idle ==
  [pc |-> "idle", op |-> "none", p |-> 0, t |-> 0, action |-> "none", qty |-> 0,
   fq |-> 0, price |-> 0, pnl |-> <<>>, agg |-> NoAgg, wkind |-> "none",
   next |-> "idle"]

NoEffects == [pnl |-> 0, activity |-> 0, notify |-> 0, copy |-> 0]

\* the ledger after placeOptionOrder has opened a position with a buy of q
\* contracts, filled at once at price pr, and has sold qs of them at ps
OpenedTrades(q, pr, qs, ps) ==
  LET buy == [NewTrade(1, "buy", q) EXCEPT !.status = "filled", !.filledQuantity = q,
                                            !.filledPrice = pr, !.brokerOrderId = 1]
  IN <<buy,
       [NewTrade(1, "sell", qs) EXCEPT !.status = "filled", !.filledQuantity = qs,
                                        !.filledPrice = ps,
                                        !.pnl = calculatePnL(<<buy>>, 1, qs, ps)]>>

OpenedParent(ts) == update_parent_trade_aggregates(NewParent, Aggregates(ts, 1), 0)

Filled(q, pr) == [status |-> "FILLED", filledQuantity |-> q, averagePrice |-> pr]

\* the dispatchers that run the copy fan-outs
Dispatchers == {1, 2}

\* no subscription, no order of a trader, no fan-out
NoCopyTrading ==
  /\ subs = <<>>
  /\ orders = <<>>
  /\ notifications = EmptyBag
  /\ fan = [d \in Dispatchers |-> <<>>]

\* the processes that can send the alert of a trade at the same time
Senders == {1, 2}

\* alert:${type}:${tradeId}
AlertKeys == (1..MaxTrades) \X {"bto", "stc"}

\* a key the store does not hold
NoKey == [present |-> FALSE, ttl |-> FALSE]

IdleSender == [pc |-> "idle", key |-> <<>>]

\* an empty store, no alert on its way
NoAlerts ==
  /\ kv = [k \in AlertKeys |-> NoKey]
  /\ aw = [w \in Senders |-> IdleSender]
  /\ alerts = [k \in AlertKeys |-> [claimed |-> 0, sent |-> 0]]

\* no poll cycle running
IdleCycle ==
  [pc |-> "idle", startedAt |-> 0, selected |-> {}, byAccount |-> <<>>,
   batch |-> <<>>, orderMap |-> <<>>, synced |-> <<>>, errors |-> <<>>,
   runs |-> 0, clean |-> TRUE, stable |-> FALSE]

\* no call of syncWithRetry
IdleRetry ==
  [pc |-> "idle", maxRetries |-> 0, attempt |-> 0, tries |-> 0, errors |-> <<>>,
   slept |-> <<>>, thrown |-> <<>>]

\* no webhook request received
NoHook == [n |-> 0, valid |-> FALSE, id |-> 0, code |-> 0]

\* nothing to reconcile
NoSync ==
  /\ syncTrades = <<>> /\ brokerOrders = <<>>
  /\ clock = 0
  /\ cycle = IdleCycle
  /\ fired = <<>> /\ surfaced = <<>>
  /\ hook = NoHook
  /\ retry = IdleRetry

Init ==
  /\ scope \in Scopes
  /\ IF scope.opened
     THEN \E q \in 2..MaxQty, pr \in 1..scope.price, ps \in 1..scope.price :
          \E qs \in 1..(q - 1) :
            /\ parents = <<OpenedParent(OpenedTrades(q, pr, qs, ps))>>
            /\ trades = OpenedTrades(q, pr, qs, ps)
            /\ broker = <<Filled(q, pr), Filled(qs, ps)>>
            /\ fx = <<NoEffects, NoEffects>>
     ELSE /\ parents = <<>>
          /\ trades = <<>>
          /\ broker = <<>>
          /\ fx = <<>>
  /\ now = 0
  /\ wk = [w \in Workers |-> Idle]
  /\ ret = "none"
  /\ NoCopyTrading
  /\ NoAlerts
  /\ NoSync

\* the handler of w returns res to its caller; ret holds the error the last
\* step returned, "none" when it returned none
Return(w, res) ==
  /\ wk' = [wk EXCEPT ![w] = Idle] /\ ret' = res /\ scope' = scope
  /\ UNCHANGED <<copyVars, alertVars, syncVars>>

\* the handler of w goes on with the locals l
Step(w, l) ==
  /\ wk' = [wk EXCEPT ![w] = l] /\ ret' = "none" /\ scope' = scope
  /\ UNCHANGED <<copyVars, alertVars, syncVars>>

Goto(w, l, pc) == Step(w, [l EXCEPT !.pc = pc])

\* the workers are interchangeable: a request is taken by the first idle one
CanStart(w) ==
  /\ w <= scope.workers
  /\ wk[w].pc = "idle"
  /\ \A o \in Workers : o < w => wk[o].pc # "idle"

Prices == 1..scope.price

\* ------------------------------------------- statements that write trades
\* the row a pending UPDATE produces from the committed row
UpdatedRow(l, row) ==
  CASE l.wkind = "fill" ->
         [row EXCEPT !.status = "filled", !.filledQuantity = l.fq, !.filledPrice = l.price]
    [] l.wkind = "fillpnl" ->
         [row EXCEPT !.status = "filled", !.filledQuantity = l.fq, !.filledPrice = l.price,
                     !.pnl = l.pnl]
    [] l.wkind = "pnl" -> [row EXCEPT !.pnl = l.pnl]
    [] l.wkind = "ack" ->
         [row EXCEPT !.brokerOrderId = l.t,
                     !.status = IF l.fq > 0 THEN "filled" ELSE "pending",
                     !.filledQuantity = l.fq, !.filledPrice = l.price]
    [] l.wkind = "cancel" -> [row EXCEPT !.status = "cancelled"]
    [] l.wkind = "reject" -> [row EXCEPT !.status = "rejected"]
    [] OTHER -> row

\* the trades table as the statement of l sees it: committed rows plus its own
TradesWith(l) ==
  IF l.wkind = "insert" THEN Append(trades, NewTrade(l.p, l.action, l.qty))
  ELSE [trades EXCEPT ![l.t] = UpdatedRow(l, @)]

\* another transaction holds the row lock of trade t
RowLocked(w, t) ==
  \E o \in Workers \ {w} : wk[o].pc = "commit" /\ wk[o].wkind # "insert" /\ wk[o].t = t

InsertsInFlight == Cardinality({o \in Workers : wk[o].pc \in {"stc_avail", "stc_insert"}
                                   \/ (wk[o].pc = "commit" /\ wk[o].wkind = "insert")})

\* issue the statement: the row triggers read their snapshot
Begin(l, kind, next) ==
  LET m == [l EXCEPT !.wkind = kind, !.next = next] IN
  [m EXCEPT !.pc = "commit", !.agg = Aggregates(TradesWith(m), m.p)]

\* the statement commits: the row and the parent's aggregates become visible
Commit(w) ==
  LET l == wk[w]
      full == l.agg.bought_qty > 0 /\ l.agg.bought_qty = l.agg.sold_qty
  IN
  /\ l.pc = "commit"
  /\ trades' = TradesWith(l)
  /\ parents' = UpdateParent(parents, l.p, l.agg, now + 1)
  /\ now' = IF full THEN now + 1 ELSE now
  /\ IF l.wkind = "insert"
     THEN /\ broker' = Append(broker, NoOrder)
          /\ fx' = Append(fx, NoEffects)
          /\ Step(w, [l EXCEPT !.pc = l.next, !.t = Len(trades) + 1,
                                !.wkind = "none", !.agg = NoAgg])
     ELSE /\ UNCHANGED <<broker, fx>>
          /\ IF l.next = "done" THEN Return(w, "none")
             ELSE Step(w, [l EXCEPT !.pc = l.next, !.wkind = "none", !.agg = NoAgg])

RoomForInsert == Len(trades) + InsertsInFlight < scope.trades

\* ------------------------------------------------ placeOptionOrder (BTO)
\* Step 3: a new parent trade and its pending buy.  Nothing else can refer
\* to the new parent before both rows exist, so the two inserts are one step.
BtoCreate(w, q) ==
  /\ CanStart(w)
  /\ Len(parents) < scope.parents
  /\ RoomForInsert
  /\ parents' = Append(parents, NewParent)
  /\ trades' = Append(trades, NewTrade(Len(parents) + 1, "buy", q))
  /\ broker' = Append(broker, NoOrder)
  /\ fx' = Append(fx, NoEffects)
  /\ Step(w, [Idle EXCEPT !.pc = "broker", !.op = "bto",
                                 !.p = Len(parents) + 1, !.t = Len(trades) + 1,
                                 !.action = "buy", !.qty = q])
  /\ UNCHANGED now

\* a further opening order on an open position (scale-in): a pending buy on
\* the existing parent
ScaleIn(w, p, q) ==
  /\ CanStart(w)
  /\ p \in ParentIds
  /\ parents[p].status = "open"
  /\ RoomForInsert
  /\ Step(w, Begin([Idle EXCEPT !.op = "bto", !.p = p,
                                       !.action = "buy", !.qty = q], "insert", "broker"))
  /\ UNCHANGED <<parents, trades, broker, fx, now>>

\* ------------------------------------------------ placeOptionOrder (STC)
\* Step 1: the parent trade must exist and be open
StcValidate(w, p, q) ==
  /\ CanStart(w)
  /\ p \in ParentIds
  /\ RoomForInsert
  /\ IF parents[p].status # "open"
     THEN Return(w, "PositionClosed")
     ELSE Step(w, [Idle EXCEPT !.pc = "stc_avail", !.op = "stc",
                                      !.p = p, !.action = "sell", !.qty = q])
  /\ UNCHANGED <<parents, trades, broker, fx, now>>

\* Step 2: params.quantity > availableQty is refused
StcAvail(w) ==
  LET l == wk[w] IN
  /\ l.pc = "stc_avail"
  /\ IF l.qty > calculateAvailableQuantity(trades, l.p)
     THEN Return(w, "InsufficientQuantity")
     ELSE Goto(w, l, "stc_insert")
  /\ UNCHANGED <<parents, trades, broker, fx, now>>

\* Step 3: INSERT of the pending sell; trigger_check_oversell may raise
StcInsert(w) ==
  LET l == wk[w] IN
  /\ l.pc = "stc_insert"
  /\ IF check_oversell(trades, NewTrade(l.p, l.action, l.qty))
     THEN Return(w, "OversellException")
     ELSE Step(w, Begin(l, "insert", "broker"))
  /\ UNCHANGED <<parents, trades, broker, fx, now>>

\* ------------------------------------------- snaptradeService.placeOrder
\* !orderResult.success: rollbackTrade marks the trade cancelled
PlaceOrderFail(w) ==
  LET l == wk[w] IN
  /\ l.pc = "broker"
  /\ ~RowLocked(w, l.t)
  /\ Step(w, Begin(l, "cancel", "rb_parent"))
  /\ UNCHANGED <<parents, trades, broker, fx, now>>

\* rollbackTrade: a parent without other trades is cancelled
RollbackParent(w) ==
  LET l == wk[w]
      otherTrades == {i \in TradeIds : i # l.t /\ trades[i].parent = l.p}
  IN
  /\ l.pc = "rb_parent"
  /\ parents' = IF otherTrades = {} THEN [parents EXCEPT ![l.p].status = "cancelled"]
                ELSE parents
  /\ Return(w, "BrokerError")
  /\ UNCHANGED <<trades, broker, fx, now>>

\* the broker accepts the order and it stays open; Step 5 stores the broker id
PlaceOrderPending(w) ==
  LET l == wk[w] IN
  /\ l.pc = "broker"
  /\ ~RowLocked(w, l.t)
  /\ broker' = [broker EXCEPT ![l.t] = [status |-> "OPEN", filledQuantity |-> 0,
                                         averagePrice |-> 0]]
  /\ Step(w, Begin(l, "ack", "placed"))
  /\ UNCHANGED <<parents, trades, fx, now>>

\* the broker fills the order at once.  A buy is stored by Step 5 of the BTO
\* flow; a sell goes on to calculatePnL (Step 5 of the STC flow)
PlaceOrderFilled(w, price) ==
  LET l == wk[w]
      m == [l EXCEPT !.fq = l.qty, !.price = price]
  IN
  /\ l.pc = "broker"
  /\ ~RowLocked(w, l.t)
  /\ broker' = [broker EXCEPT ![l.t] = [status |-> "FILLED", filledQuantity |-> l.qty,
                                         averagePrice |-> price]]
  /\ Step(w, IF l.action = "buy" THEN Begin(m, "ack", "placed")
                              ELSE [m EXCEPT !.pc = "pnl_write"])
  /\ UNCHANGED <<parents, trades, fx, now>>

\* Steps 6-9: activity, Discord alert, copy trading trigger, result
Placed(w) ==
  LET l == wk[w] IN
  /\ l.pc = "placed"
  /\ Return(w, "none")
  /\ UNCHANGED <<parents, trades, broker, fx, now>>

\* ------------------------------------------------------ P&L and closing
\* calculatePnL over the filled buys of the parent, then the UPDATE that
\* stores the P&L: together with the fill in placeOptionOrder, alone in
\* onOrderFilled
PnlWrite(w) ==
  LET l == wk[w]
      m == [l EXCEPT !.pnl = calculatePnL(trades, l.p, l.fq, l.price)]
  IN
  /\ l.pc = "pnl_write"
  /\ ~RowLocked(w, l.t)
  /\ Step(w, Begin(m, IF l.op = "stc" THEN "fillpnl" ELSE "pnl", "close_avail"))
  /\ fx' = IF l.op = "stc" THEN fx ELSE [fx EXCEPT ![l.t].pnl = @ + 1]
  /\ UNCHANGED <<parents, trades, broker, now>>

\* what follows the fill.  fx counts, per trade, the downstream actions of
\* onOrderFilled in the sync service: P&L calculation, activity, notification
\* and copy trading for a manual buy.  Steps 7-8 of the STC flow of
\* placeOptionOrder belong to the request itself and are not counted.
Effects(l) ==
  IF l.op = "stc" THEN fx
  ELSE [fx EXCEPT ![l.t].activity = @ + 1, ![l.t].notify = @ + 1,
                  ![l.t].copy = IF trades[l.t].action = "buy" /\ trades[l.t].source = "manual"
                                THEN @ + 1 ELSE @]

\* checkAndClosePosition: availableQty === 0; a position that stays open is
\* followed by the effects of the fill
CloseAvail(w) ==
  LET l == wk[w] IN
  /\ l.pc = "close_avail"
  /\ IF calculateAvailableQuantity(trades, l.p) = 0
     THEN Goto(w, l, "close_upd") /\ fx' = fx
     ELSE Return(w, "none") /\ fx' = Effects(l)
  /\ UNCHANGED <<parents, trades, broker, now>>

\* checkAndClosePosition: the P&L of the filled sells is summed into totalPnL
\* and the parent is closed; the effects of the fill follow
CloseUpdate(w) ==
  LET l == wk[w] IN
  /\ l.pc = "close_upd"
  /\ parents' = [parents EXCEPT ![l.p].status = "closed", ![l.p].closedAt = now + 1,
                                ![l.p].totalPnl = SumSellPnl(trades, l.p)]
  /\ now' = now + 1
  /\ fx' = Effects(l)
  /\ Return(w, "none")
  /\ UNCHANGED <<trades, broker>>

\* onOrderFilled for a buy: nothing to compute, the effects of the fill
FilledBuy(w) ==
  LET l == wk[w] IN
  /\ l.pc = "effects"
  /\ fx' = Effects(l)
  /\ Return(w, "none")
  /\ UNCHANGED <<parents, trades, broker, now>>

\* --------------------------------------------------------------- broker
\* the exchange fills an open order completely
BrokerFill(t, price) ==
  /\ t \in TradeIds
  /\ broker[t].status = "OPEN"
  /\ broker' = [broker EXCEPT ![t] = [status |-> "FILLED",
                                       filledQuantity |-> trades[t].quantity,
                                       averagePrice |-> price]]
  /\ UNCHANGED <<parents, trades, wk, fx, now, scope>> /\ ret' = "none"
  /\ UNCHANGED <<copyVars, alertVars, syncVars>>

\* the broker cancels or rejects an open order
BrokerCancel(t, st) ==
  /\ t \in TradeIds
  /\ broker[t].status = "OPEN"
  /\ broker' = [broker EXCEPT ![t].status = st]
  /\ UNCHANGED <<parents, trades, wk, fx, now, scope>> /\ ret' = "none"
  /\ UNCHANGED <<copyVars, alertVars, syncVars>>

\* the broker reports an open order as FILLED with a filled quantity of its
\* own: the filled_quantity of the webhook event and of the poll response is
\* whatever the broker sends
BrokerReport(t, q, price) ==
  /\ t \in TradeIds
  /\ broker[t].status = "OPEN"
  /\ broker' = [broker EXCEPT ![t] = Filled(q, price)]
  /\ UNCHANGED <<parents, trades, wk, fx, now, scope>> /\ ret' = "none"
  /\ UNCHANGED <<copyVars, alertVars, syncVars>>

\* ---------------------------------------------------------- sync service
\* handleOrderFilled without the "already filled" test
WebhookFilled_NoGuard(w, b) ==
  LET found == {i \in TradeIds : trades[i].brokerOrderId = b} IN
  /\ CanStart(w)
  /\ b \in TradeIds
  /\ broker[b].status = "FILLED"
  /\ IF found = {}
     THEN Return(w, "none")
     ELSE Step(w, [Idle EXCEPT !.pc = "hof_update", !.op = "hof", !.t = b,
                               !.p = trades[b].parent, !.action = trades[b].action,
                               !.fq = broker[b].filledQuantity,
                               !.price = broker[b].averagePrice])
  /\ UNCHANGED <<parents, trades, broker, fx, now>>

\* POST /api/webhooks/snaptrade, order.filled: the broker may deliver the
\* event any number of times.  handleOrderFilled looks the trade up by its
\* broker order id and does nothing when there is none or it is filled.
WebhookFilled(w, b) ==
  LET found == {i \in TradeIds : trades[i].brokerOrderId = b} IN
  /\ CanStart(w)
  /\ b \in TradeIds
  /\ broker[b].status = "FILLED"
  /\ IF found = {} \/ trades[b].status = "filled"
     THEN Return(w, IF found = {} THEN "none" ELSE "AlreadyProcessed")
     ELSE Step(w, [Idle EXCEPT !.pc = "hof_update", !.op = "hof", !.t = b,
                               !.p = trades[b].parent, !.action = trades[b].action,
                               !.fq = broker[b].filledQuantity,
                               !.price = broker[b].averagePrice])
  /\ UNCHANGED <<parents, trades, broker, fx, now>>

\* handleOrderFilled: UPDATE trades SET status = 'filled', ...
HofUpdate(w) ==
  LET l == wk[w] IN
  /\ l.pc = "hof_update"
  /\ ~RowLocked(w, l.t)
  /\ Step(w, Begin(l, "fill", IF l.action = "sell" THEN "pnl_write"
                                               ELSE "effects"))
  /\ UNCHANGED <<parents, trades, broker, fx, now>>

\* the poll without its status filter
PendingTrades_All == TradeIds

\* syncAllPendingOrders: the trades the poll looks at, status = 'pending'
PendingTrades == {t \in TradeIds : trades[t].status = "pending"}

\* mapBrokerStatus
mapBrokerStatus(brokerStatus) ==
  CASE brokerStatus = "FILLED" -> "filled"
    [] brokerStatus \in {"CANCELLED", "REJECTED", "EXPIRED"} -> "cancelled"
    [] OTHER -> "pending"

\* syncAllPendingOrders / syncAccountOrders: a pending trade whose broker
\* order is FILLED is handed to handleOrderFilled
PollFilled(w, t) ==
  /\ CanStart(w)
  /\ t \in PendingTrades
  /\ trades[t].brokerOrderId = t
  /\ mapBrokerStatus(broker[t].status) = "filled"
  /\ IF trades[t].status = "filled"
     THEN Return(w, "AlreadyProcessed")
     ELSE Step(w, [Idle EXCEPT !.pc = "hof_update", !.op = "hof", !.t = t,
                               !.p = trades[t].parent, !.action = trades[t].action,
                               !.fq = broker[t].filledQuantity,
                               !.price = broker[t].averagePrice])
  /\ UNCHANGED <<parents, trades, broker, fx, now>>

\* order.cancelled / order.rejected: the pending trade with this broker
\* order id becomes cancelled / rejected
WebhookCancelled(w, b) ==
  /\ CanStart(w)
  /\ b \in TradeIds
  /\ broker[b].status \in {"CANCELLED", "REJECTED"}
  /\ IF trades[b].brokerOrderId # b \/ trades[b].status # "pending"
     THEN Return(w, IF trades[b].brokerOrderId # b THEN "none" ELSE "AlreadyProcessed")
     ELSE /\ ~RowLocked(w, b)
          /\ Step(w, Begin([Idle EXCEPT !.op = "hoc", !.t = b, !.p = trades[b].parent,
                                        !.action = trades[b].action],
                           IF broker[b].status = "CANCELLED" THEN "cancel" ELSE "reject",
                           "done"))
  /\ UNCHANGED <<parents, trades, broker, fx, now>>

\* the poll: mapBrokerStatus maps CANCELLED, REJECTED and EXPIRED to
\* 'cancelled'
PollCancelled(w, t) ==
  /\ CanStart(w)
  /\ t \in PendingTrades
  /\ trades[t].brokerOrderId = t
  /\ mapBrokerStatus(broker[t].status) = "cancelled"
  /\ mapBrokerStatus(broker[t].status) # trades[t].status
  /\ ~RowLocked(w, t)
  /\ Step(w, Begin([Idle EXCEPT !.op = "hoc", !.t = t, !.p = trades[t].parent,
                                  !.action = trades[t].action], "cancel", "done"))
  /\ UNCHANGED <<parents, trades, broker, fx, now>>

\* ------------------------------------------------------------------ next
\* the steps of the request handlers and the broker's cancels and rejects
Handlers ==
  \/ \E w \in Workers, q \in 1..MaxQty : BtoCreate(w, q)
  \/ \E w \in Workers, p \in ParentIds, q \in 1..MaxQty : ScaleIn(w, p, q)
  \/ \E w \in Workers, p \in ParentIds, q \in 1..MaxQty : StcValidate(w, p, q)
  \/ \E w \in Workers : StcAvail(w)
  \/ \E w \in Workers : StcInsert(w)
  \/ \E w \in Workers : Commit(w)
  \/ \E w \in Workers : PlaceOrderFail(w)
  \/ \E w \in Workers : RollbackParent(w)
  \/ \E w \in Workers : PlaceOrderPending(w)
  \/ \E w \in Workers, price \in Prices : PlaceOrderFilled(w, price)
  \/ \E w \in Workers : Placed(w)
  \/ \E w \in Workers : PnlWrite(w)
  \/ \E w \in Workers : CloseAvail(w)
  \/ \E w \in Workers : CloseUpdate(w)
  \/ \E w \in Workers : FilledBuy(w)
  \/ \E t \in TradeIds, st \in {"CANCELLED", "REJECTED"} : BrokerCancel(t, st)
  \/ \E w \in Workers, b \in TradeIds : WebhookFilled(w, b)
  \/ \E w \in Workers : HofUpdate(w)
  \/ \E w \in Workers, t \in TradeIds : PollFilled(w, t)
  \/ \E w \in Workers, b \in TradeIds : WebhookCancelled(w, b)
  \/ \E w \in Workers, t \in TradeIds : PollCancelled(w, t)

Next ==
  \/ Handlers
  \/ \E t \in TradeIds, price \in Prices : BrokerFill(t, price)

Spec == Init /\ [][Next]_vars

\* The same handlers, one at a time, against a broker whose fill reports
\* carry any filled quantity.
ReportScope ==
  [workers |-> 1, trades |-> MaxTrades, parents |-> MaxParents, price |-> 1,
   opened |-> FALSE]

InitReport ==
  /\ scope = ReportScope
  /\ parents = <<>> /\ trades = <<>> /\ broker = <<>> /\ fx = <<>>
  /\ now = 0
  /\ wk = [w \in Workers |-> Idle]
  /\ ret = "none"
  /\ NoCopyTrading
  /\ NoAlerts
  /\ NoSync

NextReport ==
  \/ Handlers
  \/ \E t \in TradeIds, q \in 1..(MaxQty + 1) : BrokerReport(t, q, 1)

SpecReport == InitReport /\ [][NextReport]_vars

\* ------------------------------------------- placeOptionOrder: the input
\* The input of placeOptionOrder is unknown: strings are sequences of
\* characters, and a quantity is counted in halves of a contract so that a
\* number that is not an integer can be asked for.
Digits == {"0", "1", "2", "3", "4", "5", "6", "7", "8", "9"}

\* /^\d{4}-\d{2}-\d{2}$/
expirationRegex(str) ==
  /\ Len(str) = 10
  /\ \A i \in {1, 2, 3, 4, 6, 7, 9, 10} : str[i] \in Digits
  /\ str[5] = "-" /\ str[8] = "-"

\* placeOrderSchema.safeParse(input).success
placeOrderSchema(input) ==
  /\ input.side \in {"BTO", "STC"}
  /\ Len(input.underlying) >= 1 /\ Len(input.underlying) <= 10
  /\ input.optionType \in {"call", "put"}
  /\ input.strike > 0
  /\ expirationRegex(input.expiration)
  /\ input.halves % 2 = 0 /\ input.halves > 0 /\ input.halves <= 2 * 1000
  /\ input.orderType \in {"Market", "Limit"}

\* parsed.data.quantity
quantityOf(input) == input.halves \div 2

Underlyings ==
  {<<>>, <<"S", "P", "Y">>,
   <<"S", "P", "Y", "S", "P", "Y", "S", "P", "Y", "S", "P">>}

Expirations ==
  {<<"2", "0", "2", "5", "-", "0", "1", "-", "1", "7">>,
   <<"2", "0", "2", "5", "-", "1", "-", "1", "7">>,
   <<"0", "1", "/", "1", "7", "/", "2", "0", "2", "5">>}

\* the inputs tried: one field away from a well-formed request, or none
WellFormed ==
  [side |-> "BTO", underlying |-> <<"S", "P", "Y">>, optionType |-> "call",
   strike |-> 1, expiration |-> <<"2", "0", "2", "5", "-", "0", "1", "-", "1", "7">>,
   halves |-> 2, orderType |-> "Market", parentTradeId |-> 1]

Inputs ==
  {[WellFormed EXCEPT !.side = sd, !.halves = h] :
     sd \in {"BTO", "STC"}, h \in (0 - 2)..(2 * MaxQty)}
  \cup {[WellFormed EXCEPT !.underlying = u] : u \in Underlyings}
  \cup {[WellFormed EXCEPT !.expiration = e] : e \in Expirations}
  \cup {[WellFormed EXCEPT !.strike = k] : k \in {0 - 1, 0, 1}}
  \cup {[WellFormed EXCEPT !.optionType = o] : o \in {"call", "put", "future"}}

\* placeOptionOrder with no validation of its input
PlaceOptionOrder_NoParse(w, input) ==
  IF input.side = "BTO"
  THEN BtoCreate(w, quantityOf(input))
  ELSE StcValidate(w, input.parentTradeId, quantityOf(input))

\* placeOptionOrder: 1. Validate input, then the steps of the order
PlaceOptionOrder(w, input) ==
  IF ~placeOrderSchema(input)
  THEN /\ CanStart(w)
       /\ Return(w, "Invalid order parameters")
       /\ UNCHANGED <<parents, trades, broker, fx, now>>
  ELSE IF input.side = "BTO"
  THEN BtoCreate(w, quantityOf(input))
  ELSE StcValidate(w, input.parentTradeId, quantityOf(input))

NextRequest ==
  \/ \E w \in Workers, input \in Inputs : PlaceOptionOrder(w, input)
  \/ Handlers
  \/ \E t \in TradeIds, price \in Prices : BrokerFill(t, price)

SpecRequest == InitReport /\ [][NextRequest]_vars

\* ------------------------------------------------- position expiration
\* expire_old_positions, called by cron: the open positions whose
\* expiration date has passed (any of the open ones, the dates being left
\* out of the rows) get the status expired and closed_at = NOW()
expire_old_positions(due) ==
  /\ due # {}
  /\ \A p \in due : p \in ParentIds /\ parents[p].status = "open"
  /\ parents' = [p \in ParentIds |->
                   IF p \in due
                   THEN [parents[p] EXCEPT !.status = "expired", !.closedAt = now + 1]
                   ELSE parents[p]]
  /\ now' = now + 1
  /\ UNCHANGED <<trades, broker, fx, wk, ret, scope>>
  /\ UNCHANGED <<copyVars, alertVars, syncVars>>

NextExpire ==
  \/ Handlers
  \/ \E t \in TradeIds, price \in Prices : BrokerFill(t, price)
  \/ \E due \in SUBSET ParentIds : expire_old_positions(due)

SpecExpire == InitReport /\ [][NextExpire]_vars

\* ---------------------------------------------------------- copy trading
\* The copy-trade dispatcher.  The rows of the trades table that matter to
\* it are kept in orders: a BTO opens a position of its own, so the id of a
\* buy is also the id of its position (parent).  Every awaited call of a
\* fan-out loop is a step.
MaxUsers == 3
MaxManual == 1
MaxDaily == 2

Users == 1..MaxUsers

\* scalingFactor: 0.5, 1.0 and 2.0
ScalingFactors ==
  {[num |-> 1, den |-> 2], [num |-> 1, den |-> 1], [num |-> 2, den |-> 1]}

\* SubscriptionSettings
Settings ==
  [autoExecute : BOOLEAN, maxPositionSize : 1..MaxQty,
   maxDailyTrades : 1..MaxDaily, scalingFactor : ScalingFactors]

\* the settings of the second subscription: the trader's size, no cap below it
PlainSettings ==
  {s \in Settings : s.scalingFactor = [num |-> 1, den |-> 1]
                      /\ s.maxPositionSize = MaxQty}

\* a row of subscriptions, with its brokerage account
Subscription(subscriberId, traderId, status, settings) ==
  [subscriberId |-> subscriberId, traderId |-> traderId, status |-> status,
   isActive |-> TRUE, settings |-> settings]

SubIds == 1..Len(subs)
OrderIds == 1..Len(orders)

\* a row of trades (sourceTradeId = 0 is NULL)
NewOrder(userId, parent, action, quantity, status, source, sourceTradeId) ==
  [userId |-> userId, parent |-> parent, action |-> action,
   quantity |-> quantity,
   filledQuantity |-> IF status = "filled" THEN quantity ELSE 0,
   status |-> status, source |-> source, sourceTradeId |-> sourceTradeId]

\* a notification to a subscriber or a trader
Notification(userId, type, trade, quantity) ==
  [userId |-> userId, type |-> type, trade |-> trade, quantity |-> quantity]

Notify(n) == notifications' = notifications (+) SetToBag({n})

Min(a, b) == IF a <= b THEN a ELSE b

\* Math.floor(quantity * scalingFactor)
scaledQuantity(quantity, scalingFactor) ==
  (quantity * scalingFactor.num) \div scalingFactor.den

\* the active subscriptions of a trader whose account is connected, in the
\* order of the table
getActiveSubscribers(traderId) ==
  SelectSeq([i \in SubIds |-> i],
            LAMBDA i : /\ subs[i].traderId = traderId
                       /\ subs[i].status = "active"
                       /\ subs[i].isActive)

\* the trades of the user with source 'copy' created today
getDailyTradeCount(userId) ==
  Cardinality({i \in OrderIds : orders[i].userId = userId
                                  /\ orders[i].source = "copy"})

\* the daily limit taken as reached only above maxDailyTrades
calculateCopyQuantity_Above(dailyCount, originalQuantity, settings) ==
  IF dailyCount > settings.maxDailyTrades
  THEN [quantity |-> 0, skipped |-> TRUE]
  ELSE LET scaled == Min(scaledQuantity(originalQuantity, settings.scalingFactor),
                         settings.maxPositionSize)
       IN IF scaled < 1 THEN [quantity |-> 0, skipped |-> TRUE]
          ELSE [quantity |-> scaled, skipped |-> FALSE]

\* the copy quantity of the service: daily limit, scaling, cap, minimum 1
calculateCopyQuantity(dailyCount, originalQuantity, settings) ==
  IF dailyCount >= settings.maxDailyTrades
  THEN [quantity |-> 0, skipped |-> TRUE]
  ELSE LET scaled == Min(scaledQuantity(originalQuantity, settings.scalingFactor),
                         settings.maxPositionSize)
       IN IF scaled < 1 THEN [quantity |-> 0, skipped |-> TRUE]
          ELSE [quantity |-> scaled, skipped |-> FALSE]

\* the copy quantity of the trigger inside placeOptionOrder: daily limit,
\* scaling, cap
finalQuantity(dailyCount, quantity, settings) ==
  IF dailyCount >= settings.maxDailyTrades
  THEN [quantity |-> 0, skipped |-> TRUE]
  ELSE [quantity |-> Min(scaledQuantity(quantity, settings.scalingFactor),
                         settings.maxPositionSize),
        skipped |-> FALSE]

\* the open copied position of a subscriber for the position of a trader
\* (findFirst), 0 when the subscriber holds none
copiedParent(subscriberId, parentTradeId) ==
  LET found == {c \in OrderIds :
                  /\ orders[c].userId = subscriberId
                  /\ orders[c].action = "buy"
                  /\ orders[c].source = "copy"
                  /\ orders[c].sourceTradeId = parentTradeId
                  /\ ~(BoughtQty(orders, c) > 0
                         /\ BoughtQty(orders, c) = SoldQty(orders, c))}
  IN IF found = {} THEN 0 ELSE CHOOSE c \in found : \A d \in found : c <= d

\* ------------------------------------------------------------- fan-outs
\* the subscriber a loop has not yet decided on
NoCur == [sub |-> 0, quantity |-> 0, target |-> 0]

\* a running loop over the subscribers of the trader of a trade
Frame(origin, trade, todo) ==
  [origin |-> origin, trade |-> trade, todo |-> todo, cur |-> NoCur]

Running(d) == fan[d] # <<>>
Top(d) == fan[d][Len(fan[d])]

\* the dispatchers are interchangeable: a trigger is taken by the first idle one
CanDispatch(d) ==
  /\ d <= scope.workers
  /\ ~Running(d) /\ \A e \in Dispatchers : e < d => Running(e)

\* the loop of d goes on with its next subscriber
Continue(d) ==
  [fan[d] EXCEPT ![Len(fan[d])] = [@ EXCEPT !.todo = Tail(@), !.cur = NoCur]]

\* the loop of d has decided what to do for its next subscriber
Decided(d, cur) == [fan[d] EXCEPT ![Len(fan[d])] = [@ EXCEPT !.cur = cur]]

ManualCount ==
  Cardinality({o \in OrderIds : orders[o].source = "manual"
                                  /\ orders[o].action = "buy"})

\* placeOptionOrder of a trader (BTO): the order goes to the broker, which
\* fills it at once or leaves it pending; then the copy trigger runs
PlaceOrder(d, u, q, st, origin) ==
  /\ CanDispatch(d)
  /\ ManualCount < MaxManual * scope.workers
  /\ \E i \in SubIds : subs[i].traderId = u
  /\ orders' = Append(orders, NewOrder(u, Len(orders) + 1, "buy", q, st, "manual", 0))
  /\ fan' = [fan EXCEPT ![d] = <<Frame(origin, Len(orders) + 1, getActiveSubscribers(u))>>]
  /\ UNCHANGED <<subs, notifications>>
  /\ UNCHANGED <<ledgerVars, alertVars, syncVars>>

\* Step 8 of placeOptionOrder: the loop over the subscribers, inline
PlaceOrderStep8(d, u, q, st) == PlaceOrder(d, u, q, st, "step8")

\* the end of placeOptionOrder as the service documents it:
\* if (trade.source === 'manual') await handleTraderTrade(...)
PlaceOrderService(d, u, q, st) == PlaceOrder(d, u, q, st, "placed")

\* trade.action === 'buy' && trade.source === 'manual'
startsFanOut(trade) == trade.action = "buy" /\ trade.source = "manual"

\* the sync service records the fill of a pending order: onOrderFilled
OnOrderFilled(d, o) ==
  /\ CanDispatch(d)
  /\ o \in OrderIds
  /\ orders[o].status = "pending"
  /\ orders' = [orders EXCEPT ![o].status = "filled",
                              ![o].filledQuantity = orders[o].quantity]
  /\ fan' = IF startsFanOut(orders[o])
            THEN [fan EXCEPT ![d] = <<Frame("filled", o,
                                          getActiveSubscribers(orders[o].userId))>>]
            ELSE fan
  /\ UNCHANGED <<subs, notifications>>
  /\ UNCHANGED <<ledgerVars, alertVars, syncVars>>

\* the trader closes the whole of an open position: the broker fills the
\* sell at once or leaves it pending; handleTraderSTC
TraderSTC(d, o, st) ==
  /\ CanDispatch(d)
  /\ o \in OrderIds
  /\ orders[o].source = "manual" /\ orders[o].action = "buy"
  /\ calculateAvailableQuantity(orders, o) > 0
  /\ orders' = Append(orders,
                      NewOrder(orders[o].userId, o, "sell",
                               calculateAvailableQuantity(orders, o), st,
                               "manual", 0))
  /\ fan' = [fan EXCEPT ![d] = <<Frame("stc", o,
                                       getActiveSubscribers(orders[o].userId))>>]
  /\ UNCHANGED <<subs, notifications>>
  /\ UNCHANGED <<ledgerVars, alertVars, syncVars>>

\* an exception leaves a for loop that has no try/catch: it ends the loop
\* and every call that awaits it
Abort(d) == <<>>

\* Step 8: scaledQuantity, getDailyTradeCount, finalQuantity
Step8Check(d) ==
  /\ Running(d) /\ Top(d).origin = "step8"
  /\ Top(d).cur = NoCur /\ Top(d).todo # <<>>
  /\ LET i == Head(Top(d).todo)
         r == finalQuantity(getDailyTradeCount(subs[i].subscriberId),
                            orders[Top(d).trade].quantity, subs[i].settings)
     IN fan' = [fan EXCEPT ![d] =
                  IF r.skipped THEN Continue(d)
                  ELSE Decided(d, [sub |-> i, quantity |-> r.quantity, target |-> 0])]
  /\ UNCHANGED <<subs, orders, notifications>>
  /\ UNCHANGED <<ledgerVars, alertVars, syncVars>>

\* Step 8: placeOptionOrder for the subscriber, or sendCopyTradeAlert.
\* placeOptionOrder refuses a quantity that is not positive (safeParse) and
\* otherwise ends in out; the order it places runs Step 8 in its turn.
Step8Execute(d, out) ==
  /\ Running(d) /\ Top(d).origin = "step8" /\ Top(d).cur # NoCur
  /\ LET cur == Top(d).cur
         sub == subs[cur.sub]
         new == Len(orders) + 1
     IN IF out = "throw"
        THEN /\ fan' = [fan EXCEPT ![d] = Abort(d)]
             /\ UNCHANGED <<orders, notifications>>
        ELSE IF sub.settings.autoExecute
        THEN IF cur.quantity < 1 \/ out = "error"
             THEN /\ fan' = [fan EXCEPT ![d] = Continue(d)]
                  /\ UNCHANGED <<orders, notifications>>
             ELSE /\ orders' = Append(orders,
                                      NewOrder(sub.subscriberId, new, "buy",
                                               cur.quantity, out, "copy",
                                               Top(d).trade))
                  /\ fan' = [fan EXCEPT ![d] =
                               Append(Continue(d),
                                      Frame("step8", new,
                                            getActiveSubscribers(sub.subscriberId)))]
                  /\ UNCHANGED notifications
        ELSE /\ out = "filled"
             /\ Notify(Notification(sub.subscriberId, "copy_trade_alert",
                                    Top(d).trade, cur.quantity))
             /\ fan' = [fan EXCEPT ![d] = Continue(d)]
             /\ UNCHANGED orders
  /\ UNCHANGED subs
  /\ UNCHANGED <<ledgerVars, alertVars, syncVars>>

\* handleTraderTrade around processSubscriber: an exception of one
\* subscriber is caught and the loop goes on
handleTraderTrade(d) == Continue(d)

\* processSubscriber: calculateCopyQuantity
ProcessSubscriber(d) ==
  /\ Running(d) /\ Top(d).origin \in {"placed", "filled"}
  /\ Top(d).cur = NoCur /\ Top(d).todo # <<>>
  /\ LET i == Head(Top(d).todo)
         r == calculateCopyQuantity(getDailyTradeCount(subs[i].subscriberId),
                                    orders[Top(d).trade].quantity, subs[i].settings)
     IN fan' = [fan EXCEPT ![d] =
                  IF r.skipped THEN Continue(d)
                  ELSE Decided(d, [sub |-> i, quantity |-> r.quantity, target |-> 0])]
  /\ UNCHANGED <<subs, orders, notifications>>
  /\ UNCHANGED <<ledgerVars, alertVars, syncVars>>

\* processSubscriber with autoExecute: executeCopyTrade
ExecuteCopyTrade(d, out) ==
  /\ Running(d) /\ Top(d).origin \in {"placed", "filled"} /\ Top(d).cur # NoCur
  /\ subs[Top(d).cur.sub].settings.autoExecute
  /\ LET cur == Top(d).cur
         sub == subs[cur.sub]
     IN CASE out \in {"filled", "pending"} ->
               /\ orders' = Append(orders,
                                   NewOrder(sub.subscriberId, Len(orders) + 1, "buy",
                                            cur.quantity, out, "copy", Top(d).trade))
               /\ Notify(Notification(sub.subscriberId, "copy_trade_executed",
                                      Top(d).trade, cur.quantity))
          [] out = "error" ->
               /\ Notify(Notification(sub.subscriberId, "copy_trade_failed",
                                      Top(d).trade, cur.quantity))
               /\ UNCHANGED orders
          [] out = "throw" -> UNCHANGED <<orders, notifications>>
  /\ fan' = [fan EXCEPT ![d] = Continue(d)]
  /\ UNCHANGED subs
  /\ UNCHANGED <<ledgerVars, alertVars, syncVars>>

\* processSubscriber without autoExecute: sendCopyTradeAlert
SendCopyTradeAlert(d, out) ==
  /\ Running(d) /\ Top(d).origin \in {"placed", "filled"} /\ Top(d).cur # NoCur
  /\ ~subs[Top(d).cur.sub].settings.autoExecute
  /\ out \in {"filled", "throw"}
  /\ LET cur == Top(d).cur
         sub == subs[cur.sub]
     IN CASE out = "filled" ->
               /\ Notify(Notification(sub.subscriberId, "copy_trade_alert",
                                      Top(d).trade, cur.quantity))
               /\ fan' = [fan EXCEPT ![d] = Continue(d)]
          [] out = "throw" ->
               /\ fan' = [fan EXCEPT ![d] = handleTraderTrade(d)]
               /\ UNCHANGED notifications
  /\ UNCHANGED <<subs, orders>>
  /\ UNCHANGED <<ledgerVars, alertVars, syncVars>>

\* handleTraderSTC: copiedParent, availableQty
StcCheck(d) ==
  /\ Running(d) /\ Top(d).origin = "stc"
  /\ Top(d).cur = NoCur /\ Top(d).todo # <<>>
  /\ LET i == Head(Top(d).todo)
         c == copiedParent(subs[i].subscriberId, Top(d).trade)
         availableQty == IF c = 0 THEN 0 ELSE calculateAvailableQuantity(orders, c)
     IN fan' = [fan EXCEPT ![d] =
                  IF c = 0 \/ availableQty = 0 THEN Continue(d)
                  ELSE Decided(d, [sub |-> i, quantity |-> availableQty, target |-> c])]
  /\ UNCHANGED <<subs, orders, notifications>>
  /\ UNCHANGED <<ledgerVars, alertVars, syncVars>>

\* handleTraderSTC: placeOptionOrderInternal (STC) or sendCopyTradeCloseAlert
StcExecute(d, out) ==
  /\ Running(d) /\ Top(d).origin = "stc" /\ Top(d).cur # NoCur
  /\ LET cur == Top(d).cur
         sub == subs[cur.sub]
     IN IF out = "throw"
        THEN /\ fan' = [fan EXCEPT ![d] = Abort(d)]
             /\ UNCHANGED <<orders, notifications>>
        ELSE IF sub.settings.autoExecute
        THEN /\ orders' = IF out = "error" THEN orders
                          ELSE Append(orders,
                                      NewOrder(sub.subscriberId, cur.target, "sell",
                                               cur.quantity, out, "copy", Top(d).trade))
             /\ fan' = [fan EXCEPT ![d] = Continue(d)]
             /\ UNCHANGED notifications
        ELSE /\ out = "filled"
             /\ Notify(Notification(sub.subscriberId, "copy_trade_close",
                                    Top(d).trade, cur.quantity))
             /\ fan' = [fan EXCEPT ![d] = Continue(d)]
             /\ UNCHANGED orders
  /\ UNCHANGED subs
  /\ UNCHANGED <<ledgerVars, alertVars, syncVars>>

\* a loop has gone through its subscribers and returns to its caller
FanReturn(d) ==
  /\ Running(d) /\ Top(d).cur = NoCur /\ Top(d).todo = <<>>
  /\ fan' = [fan EXCEPT ![d] = SubSeq(@, 1, Len(@) - 1)]
  /\ UNCHANGED <<subs, orders, notifications>>
  /\ UNCHANGED <<ledgerVars, alertVars, syncVars>>

\* how a call to the broker or to the notification service ends
Outcomes == {"filled", "pending", "error", "throw"}

InitCopy ==
  /\ \E s1 \in Settings, s2 \in PlainSettings, t \in {1, 2} :
       subs = <<Subscription(2, 1, "active", s1), Subscription(3, t, "active", s2)>>
  /\ orders = <<>>
  /\ notifications = EmptyBag
  /\ fan = [d \in Dispatchers |-> <<>>]
  /\ scope = ReportScope
  /\ parents = <<>> /\ trades = <<>> /\ broker = <<>> /\ fx = <<>>
  /\ now = 0
  /\ wk = [w \in Workers |-> Idle]
  /\ ret = "none"
  /\ NoAlerts
  /\ NoSync

NextCopy ==
  \/ \E d \in Dispatchers, u \in Users, q \in 1..MaxQty, st \in {"filled", "pending"} :
       PlaceOrderStep8(d, u, q, st)
  \/ \E d \in Dispatchers, u \in Users, q \in 1..MaxQty, st \in {"filled", "pending"} :
       PlaceOrderService(d, u, q, st)
  \/ \E d \in Dispatchers, o \in OrderIds : OnOrderFilled(d, o)
  \/ \E d \in Dispatchers, o \in OrderIds, st \in {"filled", "pending"} :
       TraderSTC(d, o, st)
  \/ \E d \in Dispatchers : Step8Check(d)
  \/ \E d \in Dispatchers, out \in Outcomes : Step8Execute(d, out)
  \/ \E d \in Dispatchers : ProcessSubscriber(d)
  \/ \E d \in Dispatchers, out \in Outcomes : ExecuteCopyTrade(d, out)
  \/ \E d \in Dispatchers, out \in Outcomes : SendCopyTradeAlert(d, out)
  \/ \E d \in Dispatchers : StcCheck(d)
  \/ \E d \in Dispatchers, out \in Outcomes : StcExecute(d, out)
  \/ \E d \in Dispatchers : FanReturn(d)

SpecCopy == InitCopy /\ [][NextCopy]_vars

\* ------------------------------------------------ subscription lifecycle
\* The server actions that create, pause and cancel subscriptions, and the
\* statements the database accepts on the table, next to the dispatcher of
\* the service.
MaxSubs == 2

\* users.isTrader
Traders == {u \in Users : u < MaxUsers}

\* check_self_subscription, BEFORE INSERT OR UPDATE: the row is refused
check_self_subscription(row) == row.subscriberId = row.traderId

\* UNIQUE(subscriber_id, trader_id): the table rows with row i set to row
\* (i = Len(subs) + 1 is an INSERT) hold the pair twice
unique_violation(i, row) ==
  \E k \in SubIds \ {i} : /\ subs[k].subscriberId = row.subscriberId
                            /\ subs[k].traderId = row.traderId

\* the outcome of a lifecycle action; the ledger is not touched
Result(res) ==
  /\ ret' = res
  /\ UNCHANGED <<parents, trades, broker, wk, now, fx, scope>>
  /\ UNCHANGED <<alertVars, syncVars>>

\* subscribeToTrader by the user of the session
SubscribeToTrader(userId, traderId, settings) ==
  LET row == Subscription(userId, traderId, "active", settings)
      existing == \E k \in SubIds : /\ subs[k].subscriberId = userId
                                     /\ subs[k].traderId = traderId
                                     /\ subs[k].status = "active"
  IN
  /\ Len(subs) < MaxSubs
  /\ IF traderId = userId
     THEN Result("Cannot subscribe to yourself") /\ UNCHANGED subs
     ELSE IF existing
     THEN Result("Already subscribed to this trader") /\ UNCHANGED subs
     ELSE IF traderId \notin Traders
     THEN Result("Invalid trader") /\ UNCHANGED subs
     ELSE IF check_self_subscription(row) \/ unique_violation(Len(subs) + 1, row)
     THEN Result("DatabaseError") /\ UNCHANGED subs
     ELSE Result("none") /\ subs' = Append(subs, row)
  /\ UNCHANGED <<orders, notifications, fan>>

\* pauseSubscription
PauseSubscription(subscriptionId) ==
  /\ subscriptionId \in SubIds
  /\ subs[subscriptionId].status # "paused"
  /\ subs' = [subs EXCEPT ![subscriptionId].status = "paused"]
  /\ Result("none")
  /\ UNCHANGED <<orders, notifications, fan>>

\* unsubscribeFromTrader: the soft delete
UnsubscribeFromTrader(subscriptionId) ==
  /\ subscriptionId \in SubIds
  /\ subs[subscriptionId].status # "cancelled"
  /\ subs' = [subs EXCEPT ![subscriptionId].status = "cancelled"]
  /\ Result("none")
  /\ UNCHANGED <<orders, notifications, fan>>

\* an UPDATE of the two user columns with neither the trigger nor the
\* constraints of the table
UpdateSubscription_Unchecked(i, subscriberId, traderId) ==
  /\ i \in SubIds
  /\ subs' = [subs EXCEPT ![i].subscriberId = subscriberId, ![i].traderId = traderId]
  /\ Result("none")
  /\ UNCHANGED <<orders, notifications, fan>>

\* any UPDATE of the two user columns of a row of subscriptions: the
\* trigger and the constraints of the table refuse it or let it through
UpdateSubscription(i, subscriberId, traderId) ==
  LET row == [subs[i] EXCEPT !.subscriberId = subscriberId, !.traderId = traderId] IN
  /\ i \in SubIds
  /\ row # subs[i]
  /\ \A d \in Dispatchers : ~Running(d)
  /\ orders = <<>>
  /\ IF check_self_subscription(row) \/ subscriberId = traderId
          \/ unique_violation(i, row)
     THEN Result("DatabaseError") /\ UNCHANGED subs
     ELSE Result("none") /\ subs' = [subs EXCEPT ![i] = row]
  /\ UNCHANGED <<orders, notifications, fan>>

\* the settings a new subscription is created with
NewSettings ==
  {s \in PlainSettings : s.maxDailyTrades = MaxDaily}

InitSubs ==
  /\ \E s \in NewSettings : subs = <<Subscription(2, 1, "active", s)>>
  /\ orders = <<>>
  /\ notifications = EmptyBag
  /\ fan = [d \in Dispatchers |-> <<>>]
  /\ scope = ReportScope
  /\ parents = <<>> /\ trades = <<>> /\ broker = <<>> /\ fx = <<>>
  /\ now = 0
  /\ wk = [w \in Workers |-> Idle]
  /\ ret = "none"
  /\ NoAlerts
  /\ NoSync

NextSubs ==
  \/ \E u \in Users, t \in Users, s \in NewSettings : SubscribeToTrader(u, t, s)
  \/ \E i \in SubIds : PauseSubscription(i)
  \/ \E i \in SubIds : UnsubscribeFromTrader(i)
  \/ \E i \in SubIds, u \in Users, t \in Users : UpdateSubscription(i, u, t)
  \/ \E d \in Dispatchers, u \in Users, q \in 1..MaxQty, st \in {"filled", "pending"} :
       PlaceOrderService(d, u, q, st)
  \/ \E d \in Dispatchers, o \in OrderIds : OnOrderFilled(d, o)
  \/ \E d \in Dispatchers, o \in OrderIds, st \in {"filled", "pending"} :
       TraderSTC(d, o, st)
  \/ \E d \in Dispatchers : ProcessSubscriber(d)
  \/ \E d \in Dispatchers, out \in Outcomes : ExecuteCopyTrade(d, out)
  \/ \E d \in Dispatchers, out \in Outcomes : SendCopyTradeAlert(d, out)
  \/ \E d \in Dispatchers : StcCheck(d)
  \/ \E d \in Dispatchers, out \in Outcomes : StcExecute(d, out)
  \/ \E d \in Dispatchers : FanReturn(d)

SpecSubs == InitSubs /\ [][NextSubs]_vars

\* ------------------------------------------------- parallel dispatches
\* Two dispatches at the same time: the request handler of one order of the
\* trader and the sync service recording the fill of another run their
\* loops side by side over a subscriber who has chosen auto-execution.
ParallelScope == [ReportScope EXCEPT !.workers = 2]

AutoSettings == {s \in PlainSettings : s.autoExecute}

InitParallel ==
  /\ \E s \in AutoSettings : subs = <<Subscription(2, 1, "active", s)>>
  /\ orders = <<>>
  /\ notifications = EmptyBag
  /\ fan = [d \in Dispatchers |-> <<>>]
  /\ scope = ParallelScope
  /\ parents = <<>> /\ trades = <<>> /\ broker = <<>> /\ fx = <<>>
  /\ now = 0
  /\ wk = [w \in Workers |-> Idle]
  /\ ret = "none"
  /\ NoAlerts
  /\ NoSync

NextParallel ==
  \/ \E d \in Dispatchers, u \in Users, q \in 1..MaxQty, st \in {"filled", "pending"} :
       PlaceOrderService(d, u, q, st)
  \/ \E d \in Dispatchers, o \in OrderIds : OnOrderFilled(d, o)
  \/ \E d \in Dispatchers : ProcessSubscriber(d)
  \/ \E d \in Dispatchers, out \in Outcomes : ExecuteCopyTrade(d, out)
  \/ \E d \in Dispatchers : FanReturn(d)

SpecParallel == InitParallel /\ [][NextParallel]_vars

\* ---------------------------------------------------------- alert claims
\* The deduplication of the trade alerts.  Every command sent to the
\* key-value store is a step; the store runs one command at a time.  A key
\* expires ALERT_TTL after kv.expire, which is after the alert of its claim
\* has been sent or given up.

\* SET without NX: the key is written whether or not the store holds it
setnx_Overwrite(store, key) ==
  [store |-> [store EXCEPT ![key].present = TRUE], claimed |-> 1]

\* kv.setnx(key, value): 1 if the key was set, 0 if it existed
setnx(store, key) ==
  IF store[key].present
  THEN [store |-> store, claimed |-> 0]
  ELSE [store |-> [store EXCEPT ![key].present = TRUE], claimed |-> 1]

\* the senders are interchangeable: a request is taken by the first idle one
CanSend(w) ==
  /\ aw[w].pc = "idle"
  /\ \A v \in Senders : v < w => aw[v].pc # "idle"

\* sendBTOAlertSafe, claimAlertSlot: kv.setnx
ClaimAlertSlot(w, k) ==
  /\ CanSend(w)
  /\ LET r == setnx(kv, k)
     IN /\ kv' = r.store
        /\ IF r.claimed = 1
           THEN /\ aw' = [aw EXCEPT ![w] = [pc |-> "expire", key |-> k]]
                /\ alerts' = [alerts EXCEPT ![k].claimed = @ + 1]
           ELSE /\ aw' = [aw EXCEPT ![w] = [pc |-> "skipped", key |-> k]]
                /\ UNCHANGED alerts
  /\ UNCHANGED <<ledgerVars, copyVars, syncVars>>

\* claimAlertSlot: kv.expire(key, ALERT_TTL); return true
Expire(w) ==
  /\ aw[w].pc = "expire"
  /\ kv' = [kv EXCEPT ![aw[w].key].ttl = TRUE]
  /\ aw' = [aw EXCEPT ![w].pc = "send"]
  /\ UNCHANGED <<alerts, ledgerVars, copyVars, syncVars>>

\* sendBTOAlertSafe: discordAlertService.sendBTOAlert, which posts the alert
\* or fails
SendBTOAlert(w, ok) ==
  /\ aw[w].pc = "send"
  /\ alerts' = IF ok THEN [alerts EXCEPT ![aw[w].key].sent = @ + 1] ELSE alerts
  /\ aw' = [aw EXCEPT ![w] = IdleSender]
  /\ UNCHANGED <<kv, ledgerVars, copyVars, syncVars>>

\* sendBTOAlertSafe: the slot was not claimed, log and return
AlreadySent(w) ==
  /\ aw[w].pc = "skipped"
  /\ aw' = [aw EXCEPT ![w] = IdleSender]
  /\ UNCHANGED <<kv, alerts, ledgerVars, copyVars, syncVars>>

\* the store drops a key whose time to live is over; the counts of alerts
\* start again for the key
KeyExpires(k) ==
  /\ kv[k].present /\ kv[k].ttl
  /\ \A w \in Senders : aw[w].key # k
  /\ kv' = [kv EXCEPT ![k] = NoKey]
  /\ alerts' = [alerts EXCEPT ![k] = [claimed |-> 0, sent |-> 0]]
  /\ UNCHANGED <<aw, ledgerVars, copyVars, syncVars>>

InitAlert ==
  /\ NoAlerts
  /\ NoSync
  /\ NoCopyTrading
  /\ scope = ReportScope
  /\ parents = <<>> /\ trades = <<>> /\ broker = <<>> /\ fx = <<>>
  /\ now = 0
  /\ wk = [w \in Workers |-> Idle]
  /\ ret = "none"

NextAlert ==
  \/ \E w \in Senders, k \in AlertKeys : ClaimAlertSlot(w, k)
  \/ \E w \in Senders : Expire(w)
  \/ \E w \in Senders, ok \in BOOLEAN : SendBTOAlert(w, ok)
  \/ \E w \in Senders : AlreadySent(w)
  \/ \E k \in AlertKeys : KeyExpires(k)

SpecAlert == InitAlert /\ [][NextAlert]_vars

\* ---------------------------------------------------------- sync service
\* The poll cycle of syncAllPendingOrders over the brokerage accounts and
\* the webhook route, on trades that were placed before.  The broker order
\* id of trade t is t; the broker also holds an order that belongs to no
\* trade.  A handler of one trade is one step: the statements inside it and
\* their interleaving are those of the ledger above.
MaxSyncTrades == 2
MaxRuns == 2
MaxHooks == 1
MaxClock == 48

\* gte(trades.createdAt, subHours(new Date(), 24))
WindowHours == 24

Accounts == {1, 2}

SyncTradeIds == 1..Len(syncTrades)
BrokerOrderIds == 1..Len(brokerOrders)

\* a row of trades with its account
SyncTrade(accountId, brokerOrderId) ==
  [accountId |-> accountId, brokerOrderId |-> brokerOrderId,
   status |-> "pending", createdAt |-> 0]

\* the elements of a set of numbers in ascending order
RECURSIVE SeqOf(_)
SeqOf(S) ==
  IF S = {} THEN <<>>
  ELSE LET m == CHOOSE x \in S : \A y \in S : x <= y
       IN <<m>> \o SeqOf(S \ {m})

\* the poll without its status filter
pendingTrades_AnyStatus ==
  {t \in SyncTradeIds : syncTrades[t].createdAt >= clock - WindowHours}

\* syncAllPendingOrders: the pending trades placed in the last 24 hours
pendingTrades ==
  {t \in SyncTradeIds : /\ syncTrades[t].status = "pending"
                        /\ syncTrades[t].createdAt >= clock - WindowHours}

\* groupBy(pendingTrades, 'accountId'): the accounts, and the trades of one
byAccount(ts) == SeqOf({syncTrades[t].accountId : t \in ts})
accountTrades(ts, accountId) == SeqOf({t \in ts : syncTrades[t].accountId = accountId})

\* snaptradeService.getOrders and the lookup map built from it: the status
\* of every order the broker holds for the account, "NONE" for any other id
getOrders(accountId) ==
  [b \in BrokerOrderIds |->
     IF brokerOrders[b].accountId = accountId THEN brokerOrders[b].status ELSE "NONE"]

\* the exception of an account leaves syncAllPendingOrders
catchError_Rethrow(c) ==
  [c EXCEPT !.pc = "idle", !.byAccount = <<>>, !.batch = <<>>, !.orderMap = <<>>,
            !.selected = {}, !.runs = @ + 1, !.stable = FALSE]

\* syncAllPendingOrders: catch (error) { errors.push(...) }, then the next
\* account
catchError(c) ==
  [c EXCEPT !.pc = "accounts", !.errors = Append(@, Head(c.byAccount)),
            !.byAccount = Tail(@), !.batch = <<>>, !.orderMap = <<>>]

\* the broker or a webhook has moved on while a cycle may be running
Disturbed(c) == [c EXCEPT !.clean = FALSE, !.stable = FALSE]

\* handleOrderFilled: the trade with this broker order id, unless there is
\* none or it is filled, becomes filled and onOrderFilled runs
handleOrderFilled(b) ==
  IF b \notin SyncTradeIds \/ syncTrades[b].status = "filled"
  THEN UNCHANGED <<syncTrades, fired, surfaced>>
  ELSE /\ syncTrades' = [syncTrades EXCEPT ![b].status = "filled"]
       /\ fired' = [fired EXCEPT ![b] = @ + 1]
       /\ UNCHANGED surfaced

\* handleOrderCancelled / handleOrderRejected: a pending trade takes the
\* status; an id that matches no trade is surfaced as unknown
handleOrderCancelled(b, status) ==
  IF b \notin SyncTradeIds
  THEN /\ surfaced' = [surfaced EXCEPT ![b] = @ + 1]
       /\ UNCHANGED <<syncTrades, fired>>
  ELSE /\ syncTrades' = IF syncTrades[b].status = "pending"
                        THEN [syncTrades EXCEPT ![b].status = status]
                        ELSE syncTrades
       /\ UNCHANGED <<fired, surfaced>>

\* markAsUnknown: the trade gets the status unknown and is surfaced for
\* manual reconciliation
markAsUnknown(t) ==
  /\ syncTrades' = [syncTrades EXCEPT ![t].status = "unknown"]
  /\ surfaced' = [surfaced EXCEPT ![t] = @ + 1]
  /\ UNCHANGED fired

\* updateTradeStatus: the entry points of the webhook, by the mapped status
updateTradeStatus(t, brokerStatus) ==
  IF mapBrokerStatus(brokerStatus) = "filled"
  THEN handleOrderFilled(syncTrades[t].brokerOrderId)
  ELSE handleOrderCancelled(syncTrades[t].brokerOrderId, mapBrokerStatus(brokerStatus))

\* the broker fills, cancels, rejects or drops an open order
BrokerMoves(b, status) ==
  /\ b \in BrokerOrderIds
  /\ brokerOrders[b].status = "OPEN"
  /\ brokerOrders' = [brokerOrders EXCEPT ![b].status = status]
  /\ cycle' = Disturbed(cycle)
  /\ UNCHANGED <<syncTrades, clock, fired, surfaced, hook>>
  /\ UNCHANGED <<ledgerVars, copyVars, alertVars, retry>>

\* time passes
Tick ==
  /\ clock < MaxClock
  /\ clock' = clock + WindowHours
  /\ UNCHANGED <<syncTrades, brokerOrders, cycle, fired, surfaced, hook>>
  /\ UNCHANGED <<ledgerVars, copyVars, alertVars, retry>>

\* GET /api/cron/sync-orders: syncAllPendingOrders reads the pending trades
\* and groups them by account
SyncAllPendingOrders ==
  /\ cycle.pc = "idle"
  /\ cycle.runs < MaxRuns
  /\ cycle' = [cycle EXCEPT !.pc = "accounts", !.startedAt = clock,
                            !.selected = pendingTrades,
                            !.byAccount = byAccount(pendingTrades),
                            !.synced = <<>>, !.errors = <<>>, !.clean = TRUE]
  /\ UNCHANGED <<syncTrades, brokerOrders, clock, fired, surfaced, hook>>
  /\ UNCHANGED <<ledgerVars, copyVars, alertVars, retry>>

\* syncAccountOrders for the next account: getOrders succeeds or not
SyncAccountOrders(success) ==
  /\ cycle.pc = "accounts" /\ cycle.byAccount # <<>>
  /\ cycle' = IF success
              THEN [cycle EXCEPT !.pc = "batch",
                                 !.batch = accountTrades(cycle.selected,
                                                         Head(cycle.byAccount)),
                                 !.orderMap = getOrders(Head(cycle.byAccount))]
              ELSE catchError(cycle)
  /\ UNCHANGED <<syncTrades, brokerOrders, clock, fired, surfaced, hook>>
  /\ UNCHANGED <<ledgerVars, copyVars, alertVars, retry>>

\* syncAccountOrders: the next trade of the batch.  Its broker order is
\* missing (markAsUnknown), or its mapped status differs from 'pending'
\* (updateTradeStatus), or nothing is to do; a write may throw.
CheckTrade(success) ==
  /\ cycle.pc = "batch" /\ cycle.batch # <<>>
  /\ LET t == Head(cycle.batch)
         brokerOrder == cycle.orderMap[syncTrades[t].brokerOrderId]
         write == brokerOrder = "NONE" \/ mapBrokerStatus(brokerOrder) # "pending"
     IN /\ success \/ write
        /\ IF ~success
           THEN /\ cycle' = catchError(cycle)
                /\ UNCHANGED <<syncTrades, fired, surfaced>>
           ELSE /\ cycle' = [cycle EXCEPT !.batch = Tail(@)]
                /\ IF brokerOrder = "NONE" THEN markAsUnknown(t)
                   ELSE IF write THEN updateTradeStatus(t, brokerOrder)
                   ELSE UNCHANGED <<syncTrades, fired, surfaced>>
  /\ UNCHANGED <<brokerOrders, clock, hook>>
  /\ UNCHANGED <<ledgerVars, copyVars, alertVars, retry>>

\* syncedCount += accountTrades.length, then the next account; synced holds
\* the accounts whose trades are counted
AccountSynced ==
  /\ cycle.pc = "batch" /\ cycle.batch = <<>>
  /\ cycle' = [cycle EXCEPT !.pc = "accounts", !.synced = Append(@, Head(cycle.byAccount)),
                            !.byAccount = Tail(@), !.orderMap = <<>>]
  /\ UNCHANGED <<syncTrades, brokerOrders, clock, fired, surfaced, hook>>
  /\ UNCHANGED <<ledgerVars, copyVars, alertVars, retry>>

\* return { syncedCount, errors }
SyncReturn ==
  /\ cycle.pc = "accounts" /\ cycle.byAccount = <<>>
  /\ cycle' = [cycle EXCEPT !.pc = "idle", !.selected = {}, !.runs = @ + 1,
                            !.stable = cycle.clean /\ cycle.errors = <<>>]
  /\ UNCHANGED <<syncTrades, brokerOrders, clock, fired, surfaced, hook>>
  /\ UNCHANGED <<ledgerVars, copyVars, alertVars, retry>>

\* the events of the webhook and the broker status each of them reports
EventTypes == {"order.filled", "order.cancelled", "order.rejected"}

brokerStatusOf(type) ==
  CASE type = "order.filled" -> "FILLED"
    [] type = "order.cancelled" -> "CANCELLED"
    [] type = "order.rejected" -> "REJECTED"

\* the signature the broker puts on a body, and the header of a request
\* that carries none
hmac(body) == <<"hmac", body.type, body.id>>
NoSignature == <<>>

\* verifySignature: the header is the signature of the body
verifySignature(body, signature) == signature = hmac(body)

\* the headers a request with this body may carry: the broker's, the one of
\* another body, none
Signatures(body) ==
  {hmac(body), hmac([body EXCEPT !.id = 1 + (body.id % Len(brokerOrders))]), NoSignature}

\* the route without the signature test
Webhook_NoVerify(body, signature) ==
  /\ hook.n < MaxHooks
  /\ hook' = [n |-> hook.n + 1, valid |-> verifySignature(body, signature),
              id |-> body.id, code |-> 200]
  /\ cycle' = Disturbed(cycle)
  /\ IF body.type = "order.filled" THEN handleOrderFilled(body.id)
     ELSE handleOrderCancelled(body.id, IF body.type = "order.cancelled"
                                        THEN "cancelled" ELSE "rejected")
  /\ UNCHANGED <<brokerOrders, clock>>
  /\ UNCHANGED <<ledgerVars, copyVars, alertVars, retry>>

\* POST /api/webhooks/snaptrade: 401 unless the signature verifies, then
\* the handler of the event type.  Only the broker can sign, and it signs
\* the events of its own orders.
Webhook(body, signature) ==
  /\ hook.n < MaxHooks
  /\ verifySignature(body, signature) =>
       brokerOrders[body.id].status = brokerStatusOf(body.type)
  /\ IF ~verifySignature(body, signature)
     THEN /\ hook' = [n |-> hook.n + 1, valid |-> FALSE, id |-> body.id, code |-> 401]
          /\ UNCHANGED <<syncTrades, fired, surfaced, cycle>>
     ELSE /\ hook' = [n |-> hook.n + 1, valid |-> TRUE, id |-> body.id, code |-> 200]
          /\ cycle' = Disturbed(cycle)
          /\ IF body.type = "order.filled" THEN handleOrderFilled(body.id)
             ELSE handleOrderCancelled(body.id, IF body.type = "order.cancelled"
                                                THEN "cancelled" ELSE "rejected")
  /\ UNCHANGED <<brokerOrders, clock>>
  /\ UNCHANGED <<ledgerVars, copyVars, alertVars, retry>>

InitSync ==
  /\ \E a \in [2..MaxSyncTrades -> Accounts] :
       /\ syncTrades = [t \in 1..MaxSyncTrades |->
                          SyncTrade(IF t = 1 THEN 1 ELSE a[t], t)]
       /\ brokerOrders = [b \in 1..(MaxSyncTrades + 1) |->
                            [accountId |-> IF b = 1 \/ b > MaxSyncTrades THEN 1 ELSE a[b],
                             status |-> "OPEN"]]
  /\ clock = 0
  /\ cycle = IdleCycle
  /\ fired = [t \in 1..MaxSyncTrades |-> 0]
  /\ surfaced = [b \in 1..(MaxSyncTrades + 1) |-> 0]
  /\ hook = NoHook
  /\ retry = IdleRetry
  /\ NoCopyTrading
  /\ NoAlerts
  /\ scope = ReportScope
  /\ parents = <<>> /\ trades = <<>> /\ broker = <<>> /\ fx = <<>>
  /\ now = 0
  /\ wk = [w \in Workers |-> Idle]
  /\ ret = "none"

NextSync ==
  \/ \E b \in BrokerOrderIds, status \in {"FILLED", "CANCELLED", "REJECTED", "NONE"} :
       BrokerMoves(b, status)
  \/ Tick
  \/ SyncAllPendingOrders
  \/ \E success \in BOOLEAN : SyncAccountOrders(success)
  \/ \E success \in BOOLEAN : CheckTrade(success)
  \/ AccountSynced
  \/ SyncReturn
  \/ \E type \in EventTypes, id \in BrokerOrderIds :
       \E signature \in Signatures([type |-> type, id |-> id]) :
         Webhook([type |-> type, id |-> id], signature)

SpecSync == InitSync /\ [][NextSync]_vars

\* ------------------------------------------------------- syncWithRetry
\* One call of syncWithRetry for a trade.  Every awaited call is a step:
\* syncSingleOrder, which succeeds or throws one of the sync errors, and
\* sleep.
MaxRetries == 4

\* Common Sync Errors
SyncErrors == {"Rate limited", "Network timeout", "Account disconnected"}

RECURSIVE Pow2(_)
Pow2(n) == IF n = 0 THEN 1 ELSE 2 * Pow2(n - 1)

\* a wait that does not grow with the attempt
backoff_Flat(attempt) == 1000

\* Math.pow(2, attempt) * 1000, in milliseconds
backoff(attempt) == Pow2(attempt) * 1000

RetryStep ==
  UNCHANGED <<syncTrades, brokerOrders, clock, cycle, fired, surfaced, hook,
              ledgerVars, copyVars, alertVars>>

\* syncWithRetry(trade, maxRetries): attempt = 0, and the test of the loop
SyncWithRetry(maxRetries) ==
  /\ retry.pc = "idle"
  /\ retry' = [IdleRetry EXCEPT !.maxRetries = maxRetries,
                                !.pc = IF 0 < maxRetries THEN "try" ELSE "returned"]
  /\ RetryStep

\* await syncService.syncSingleOrder(trade) returns: return
SyncSingleOrderDone ==
  /\ retry.pc = "try"
  /\ retry' = [retry EXCEPT !.pc = "returned", !.tries = @ + 1]
  /\ RetryStep

\* await syncService.syncSingleOrder(trade) throws: the catch block
SyncSingleOrderThrows(error) ==
  /\ retry.pc = "try"
  /\ retry' = IF retry.attempt = retry.maxRetries - 1
               THEN [retry EXCEPT !.pc = "thrown", !.tries = @ + 1,
                                  !.errors = Append(@, error), !.thrown = <<error>>]
               ELSE [retry EXCEPT !.pc = "sleep", !.tries = @ + 1,
                                  !.errors = Append(@, error)]
  /\ RetryStep

\* await sleep(...), then attempt++ and the test of the loop
Sleep ==
  /\ retry.pc = "sleep"
  /\ retry' = [retry EXCEPT !.slept = Append(@, backoff(retry.attempt)),
                            !.attempt = @ + 1,
                            !.pc = IF retry.attempt + 1 < retry.maxRetries
                                   THEN "try" ELSE "returned"]
  /\ RetryStep

NextRetry ==
  \/ \E maxRetries \in 1..MaxRetries : SyncWithRetry(maxRetries)
  \/ SyncSingleOrderDone
  \/ \E error \in SyncErrors : SyncSingleOrderThrows(error)
  \/ Sleep

\* every awaited call settles: the call to the broker returns or throws, and
\* the timer of sleep fires
SpecRetry == InitReport /\ [][NextRetry]_vars /\ WF_vars(NextRetry)

\* ------------------------------------------------------------ properties
\* The quantities of the specification, summed over sets of orders.
RECURSIVE SumFn(_, _)
SumFn(f, S) ==
  IF S = {} THEN 0
  ELSE LET x == CHOOSE y \in S : TRUE IN f[x] + SumFn(f, S \ {x})

\* the orders of position p with the given side and status
Orders(p, action, status) ==
  {i \in TradeIds : trades[i].parent = p /\ trades[i].action = action
                      /\ trades[i].status = status}

\* cumulative filled quantity of the buys ("buy") or sells ("sell") of p
FilledQty(p, action) ==
  SumFn([i \in TradeIds |-> trades[i].filledQuantity], Orders(p, action, "filled"))

\* quantity reserved by the pending closing orders of p
ReservedQty(p) ==
  SumFn([i \in TradeIds |-> trades[i].quantity], Orders(p, "sell", "pending"))

\* sum of filled quantity x fill price x 100 over the filled orders, in cents
FilledValue(p, action) ==
  SumFn([i \in TradeIds |-> trades[i].filledQuantity * trades[i].filledPrice * 100 * 100],
        Orders(p, action, "filled"))

\* filled buys less filled sells less pending sell reservations
SpecAvailable(p) == FilledQty(p, "buy") - FilledQty(p, "sell") - ReservedQty(p)

\* no handler is working on position p
Quiescent(p) == \A w \in Workers : wk[w].p # p

\* C1: on every position the cumulative filled sell quantity never exceeds
\* the cumulative filled buy quantity, whatever the interleaving of opens,
\* close requests, fills, cancels and rejects.
C1_NoOversell ==
  \A p \in ParentIds : FilledQty(p, "sell") <= FilledQty(p, "buy")

\* C2: two close requests whose quantities together exceed the available
\* quantity never both end up as accepted pending closing orders: any two
\* pending closing orders of a position fit together into what its filled
\* buys less its filled sells leave.
C2_NoDoubleReservation ==
  \A p \in ParentIds : \A i, j \in Orders(p, "sell", "pending") :
    i # j => trades[i].quantity + trades[j].quantity
               <= FilledQty(p, "buy") - FilledQty(p, "sell")

\* C3: in every reachable state the available quantity the program computes
\* for a position equals its filled buys less its filled sells less its
\* pending sell reservations; pending buys contribute nothing.
C3_AvailableQuantity ==
  \A p \in ParentIds : calculateAvailableQuantity(trades, p) = SpecAvailable(p)

\* C4: a close request for more than the available quantity is refused with
\* the error that names both quantities; the step that refuses it creates no
\* order, sends nothing to the broker and leaves the orders and the position
\* as they were.
C4_RejectedCloseChangesNothing ==
  [][\A w \in Workers :
       (/\ wk[w].pc \in {"stc_avail", "stc_insert"}
        /\ wk'[w] # wk[w]
        /\ wk[w].qty > SpecAvailable(wk[w].p))
       => /\ ret' \in {"InsufficientQuantity", "OversellException"}
          /\ wk'[w].pc = "idle"
          /\ UNCHANGED <<trades, parents, broker, fx>>]_vars

\* a close request has just been refused for lack of available quantity
C4_Rejected ==
  /\ ret = "InsufficientQuantity"
  /\ \E p \in ParentIds : FilledQty(p, "buy") > 0 /\ parents[p].status = "open"

\* C5: a terminal event (fill, cancel, reject) that arrives for an order
\* that is already in that terminal state is not taken up again: the step
\* that receives it changes no order, no position (closed_at included) and
\* fires no downstream action.
C5_ReappliedEventIsNoOp ==
  [][/\ ret' = "AlreadyProcessed" => UNCHANGED <<trades, parents, broker, fx, now>>
     /\ \A w \in Workers :
          (wk[w].pc = "idle" /\ wk'[w].pc # "idle")
          => /\ wk'[w].op = "hof" => trades[wk'[w].t].status # "filled"
             /\ wk'[w].op = "hoc" => trades[wk'[w].t].status = "pending"]_vars

\* the fill of an order was applied by the sync service, and the same event
\* has just been delivered again
C5_Reapplied ==
  /\ ret = "AlreadyProcessed"
  /\ \E t \in TradeIds : trades[t].status = "filled" /\ fx[t].activity = 1

\* C6: whatever the interleaving of the webhook and the poll that report the
\* same fill, the downstream actions of the fill (P&L calculation, activity
\* record, notification, copy dispatch) fire at most once per order.
C6_EffectsOnce ==
  \A t \in TradeIds : /\ fx[t].pnl <= 1
                      /\ fx[t].activity <= 1
                      /\ fx[t].notify <= 1
                      /\ fx[t].copy <= 1

\* C7: in every reachable state the cost basis of a position is the sum of
\* filled quantity x fill price x 100 over its filled buys and its proceeds
\* the same sum over its filled sells.
C7_AggregatesMatchFills ==
  \A p \in ParentIds : /\ parents[p].totalCostBasis = FilledValue(p, "buy")
                       /\ parents[p].totalProceeds = FilledValue(p, "sell")

\* C8: the realized P&L of a position is its proceeds less the cost basis of
\* the closed quantity (average buy price x closed quantity x 100); with
\* filled buys and no filled sell it is 0.
C8_RealizedPnl ==
  \A p \in ParentIds :
    FilledQty(p, "buy") > 0 =>
      /\ parents[p].totalPnl * FilledQty(p, "buy")
           = FilledValue(p, "sell") * FilledQty(p, "buy")
               - FilledValue(p, "buy") * FilledQty(p, "sell")
      /\ FilledQty(p, "sell") = 0 => parents[p].totalPnl = 0

C10_ClosedIffFlat ==
  \A p \in ParentIds :
    parents[p].status = "closed"
      <=> (FilledQty(p, "buy") > 0 /\ FilledQty(p, "buy") = FilledQty(p, "sell"))

\* C11: once a position is closed and closed_at is stamped, no later event
\* on the position or its orders changes closed_at again.
C11_ClosedAtStampedOnce ==
  [][\A p \in ParentIds :
       parents[p].closedAt # 0 => parents'[p].closedAt = parents[p].closedAt]_vars

C13_FilledAtMostRequested ==
  \A t \in TradeIds : trades[t].filledQuantity <= trades[t].quantity

\* C14: the step that cancels or rejects a pending closing order makes the
\* available quantity of its position larger by exactly the quantity the
\* order had requested.
C14_CancelReleasesReservation ==
  [][\A t \in TradeIds :
       (/\ trades[t].action = "sell"
        /\ trades[t].status = "pending"
        /\ trades'[t].status \in {"cancelled", "rejected"})
       => calculateAvailableQuantity(trades', trades[t].parent)
            = calculateAvailableQuantity(trades, trades[t].parent) + trades[t].quantity]_vars

\* the subscription of a subscriber to the trader of a source order
SubscriptionOf(subscriberId, src) ==
  CHOOSE i \in SubIds : /\ subs[i].subscriberId = subscriberId
                        /\ subs[i].traderId = orders[src].userId

\* min(floor(filledQty x scalingFactor), maxPositionSize) for the subscriber
\* and the source order; an order fills in full
SpecCopyQuantity(subscriberId, src) ==
  LET settings == subs[SubscriptionOf(subscriberId, src)].settings
  IN Min((orders[src].quantity * settings.scalingFactor.num)
           \div settings.scalingFactor.den,
         settings.maxPositionSize)

\* the opening copy orders and the copy suggestions
CopyOrders == {o \in OrderIds : orders[o].source = "copy" /\ orders[o].action = "buy"}
Suggestions == {n \in BagToSet(notifications) : n.type = "copy_trade_alert"}

\* C15: every copy order and every copy suggestion carries the quantity
\* min(floor(filledQty x scalingFactor), maxPositionSize) of its subscriber
\* and source order, and none is made when that quantity is below 1.
C15_CopyQuantity ==
  /\ \A o \in CopyOrders :
       /\ orders[o].quantity = SpecCopyQuantity(orders[o].userId, orders[o].sourceTradeId)
       /\ orders[o].quantity >= 1
  /\ \A n \in Suggestions :
       /\ n.quantity = SpecCopyQuantity(n.userId, n.trade)
       /\ n.quantity >= 1

\* the opening copy orders of a user in a trades table
CopyBuysOf(ts, userId) ==
  {o \in 1..Len(ts) : ts[o].userId = userId /\ ts[o].source = "copy"
                        /\ ts[o].action = "buy"}

\* the copy suggestions sent to a user
SuggestionsTo(ns, userId) ==
  SumFn([n \in BagToSet(ns) |->
           IF n.userId = userId /\ n.type = "copy_trade_alert"
           THEN CopiesIn(n, ns) ELSE 0],
        BagToSet(ns))

\* subscription i has reached its daily limit
AtDailyLimit(i) ==
  getDailyTradeCount(subs[i].subscriberId) >= subs[i].settings.maxDailyTrades

\* the loop of d is about to decide on subscription i for an opening order
Deciding(d, i) ==
  /\ Running(d) /\ Top(d).origin # "stc"
  /\ Top(d).cur = NoCur /\ Top(d).todo # <<>> /\ Head(Top(d).todo) = i

\* C16: while the count of copied trades of a subscriber for the day is at
\* or above maxDailyTrades, no step adds an opening copy order or a copy
\* suggestion for that subscriber, and the step that skips the subscriber
\* sends no notification at all, so none to the trader.
C16_DailyLimit ==
  [][\A i \in SubIds :
       AtDailyLimit(i) =>
         /\ CopyBuysOf(orders', subs[i].subscriberId)
              = CopyBuysOf(orders, subs[i].subscriberId)
         /\ SuggestionsTo(notifications', subs[i].subscriberId)
              = SuggestionsTo(notifications, subs[i].subscriberId)
         /\ \A d \in Dispatchers :
              Deciding(d, i) => notifications' = notifications]_vars

\* a fill is being dispatched, its first subscriber has been decided on and
\* was at the daily limit: the one copy order the subscriber has was placed
\* by Step 8 (executeCopyTrade would have sent copy_trade_executed)
C16_Skipped ==
  \E d \in Dispatchers :
    /\ Running(d) /\ Top(d).origin = "filled" /\ Top(d).cur = NoCur
    /\ LET all == getActiveSubscribers(orders[Top(d).trade].userId)
       IN /\ all # <<>>
          /\ Len(Top(d).todo) = Len(all) - 1
          /\ AtDailyLimit(Head(all))
          /\ subs[Head(all)].settings.autoExecute
          /\ \A n \in BagToSet(notifications) :
               n.userId # subs[Head(all)].subscriberId

\* the copy attempts made for a subscriber and a source order: the opening
\* copy orders and the copy suggestions
CopyAttempts(userId, src) ==
  Cardinality({o \in CopyBuysOf(orders, userId) : orders[o].sourceTradeId = src})
    + SumFn([n \in BagToSet(notifications) |->
               IF n.userId = userId /\ n.type = "copy_trade_alert" /\ n.trade = src
               THEN CopiesIn(n, notifications) ELSE 0],
            BagToSet(notifications))

\* C17: for every source order and every subscriber at most one copy
\* attempt (auto-executed order or copy suggestion) has been made.
C17_OneAttemptPerOrderAndSubscriber ==
  \A src \in OrderIds, u \in Users : CopyAttempts(u, src) <= 1

\* C18: within the time to live of a key, of all the claims made for it
\* exactly one has succeeded, and at most one alert has been sent for it.
C18_OneClaimSucceeds ==
  \A k \in AlertKeys :
    /\ alerts[k].claimed <= 1
    /\ alerts[k].sent <= alerts[k].claimed
    /\ kv[k].present => alerts[k].claimed = 1
    /\ \A w \in Senders : aw[w].key = k => alerts[k].claimed = 1

\* a second claim for a key has failed while the sender that claimed the
\* key has not yet sent its alert
C18_SecondClaimFails ==
  \E w, v \in Senders :
    /\ aw[w].pc = "skipped"
    /\ aw[v].pc \in {"expire", "send"}
    /\ aw[v].key = aw[w].key

\* C19: every fan-out that runs was started by an opening order of manual
\* provenance, and no copy order is the copy of a copied order.
C19_NoFanOutFromCopy ==
  /\ \A d \in Dispatchers : \A k \in 1..Len(fan[d]) :
       LET trade == orders[fan[d][k].trade]
       IN trade.action = "buy" /\ trade.source = "manual"
  /\ \A o \in CopyOrders : orders[orders[o].sourceTradeId].source = "manual"

\* the subscribers a loop has still to process after the one in hand
Others(frame) == IF frame.cur = NoCur THEN frame.todo ELSE Tail(frame.todo)

\* C20: a fan-out loop ends only when no subscriber is left to process:
\* whatever happens to the subscriber in hand, the others are processed.
C20_FailureIsolated ==
  [][\A d \in Dispatchers : \A k \in 1..Len(fan[d]) :
       k > Len(fan'[d]) => Others(fan[d][k]) = <<>>]_vars

\* the orders of source 'manual': the traders' own orders
ManualOrders == {o \in OrderIds : orders[o].source = "manual"}

\* the call at the bottom of the stack of d, the flow of the trader, ends
\* by an exception: the stack is dropped while a loop still had work
TraderFlowThrows(d) ==
  /\ Running(d) /\ fan'[d] = <<>>
  /\ ~(Len(fan[d]) = 1 /\ Top(d).cur = NoCur /\ Top(d).todo = <<>>)

\* C21: while a fan-out runs for the order of a trader, no step of it
\* changes an order of source 'manual' (status and filled quantity stay as
\* recorded) and the flow of the trader never ends by an exception of the
\* dispatch.
C21_DispatchFailureKeptFromTrader ==
  [][\A d \in Dispatchers :
       Running(d) => /\ \A o \in ManualOrders : orders'[o] = orders[o]
                     /\ ~TraderFlowThrows(d)]_vars

\* the loop of d ends the auto-executed copy it had decided on without an
\* order for the subscriber: the copy has failed
AutoCopyFails(d) ==
  /\ Running(d) /\ Top(d).cur # NoCur
  /\ subs[Top(d).cur.sub].settings.autoExecute
  /\ fan'[d] # fan[d]
  /\ orders' = orders

\* C22: the step in which an auto-executed copy fails, by an error result
\* or by an exception, sends one copy_trade_failed notification to the
\* subscriber of the copy and no other notification to anybody; the loop
\* goes on without a second attempt.
C22_FailureNotifiesSubscriberOnly ==
  [][\A d \in Dispatchers :
       AutoCopyFails(d) =>
         notifications' =
           notifications (+) SetToBag({Notification(subs[Top(d).cur.sub].subscriberId,
                                                    "copy_trade_failed", Top(d).trade,
                                                    Top(d).cur.quantity)})]_vars

\* the copied positions of subscription i for the position p of its trader
\* that still hold a quantity, in the orders os
OpenCopies(os, i, p) ==
  {c \in 1..Len(os) : /\ os[c].userId = subs[i].subscriberId
                       /\ os[c].action = "buy" /\ os[c].source = "copy"
                       /\ os[c].sourceTradeId = p
                       /\ calculateAvailableQuantity(os, c) > 0}

\* the positions of source 'manual' whose closing fill this step records
ClosingFills ==
  {orders'[s].parent : s \in {s \in 1..Len(orders') :
      /\ orders'[s].source = "manual" /\ orders'[s].action = "sell"
      /\ orders'[s].status = "filled"
      /\ (s \in OrderIds => orders[s].status = "pending")}}

\* the position whose close the fan-out of d has just gone through
StcDone(d) ==
  IF Running(d) /\ fan[d][1].origin = "stc" /\ fan'[d] = <<>>
       /\ \E s \in OrderIds : /\ orders[s].parent = fan[d][1].trade
                               /\ orders[s].source = "manual"
                               /\ orders[s].action = "sell"
                               /\ orders[s].status = "filled"
  THEN {fan[d][1].trade} ELSE {}

\* every active subscriber of the trader of position p has been served: a
\* suggestion to close for the quantity it holds, or nothing left to close
Served(p) ==
  \A i \in SubIds :
    subs[i].traderId = orders'[p].userId /\ subs[i].status = "active" =>
      \A c \in OpenCopies(orders', i, p) :
        /\ ~subs[i].settings.autoExecute
        /\ BagIn(Notification(subs[i].subscriberId, "copy_trade_close", p,
                               calculateAvailableQuantity(orders', c)),
                 notifications')

\* C23: once the closing fill of a position of source 'manual' has been
\* recorded and its fan-out, if any, is over, every active subscriber of
\* the trader that held an open copied position for it has an order that
\* closes all it held, or a suggestion to close that quantity; orders that
\* close a copy and suggestions to close go to holders of a copy only.
C23_CloseReachesEveryHolder ==
  [][/\ \A p \in ClosingFills :
          (\A d \in Dispatchers : fan'[d] = <<>>) => Served(p)
     /\ \A d \in Dispatchers : \A p \in StcDone(d) : Served(p)
     /\ \A s \in 1..Len(orders') :
          orders'[s].source = "copy" /\ orders'[s].action = "sell" =>
            /\ orders'[orders'[s].parent].source = "copy"
            /\ orders'[orders'[s].parent].userId = orders'[s].userId
            /\ orders'[s].quantity <= orders'[orders'[s].parent].filledQuantity
     /\ \A n \in BagToSet(notifications') :
          n.type = "copy_trade_close" =>
            \E c \in 1..Len(orders') :
              /\ orders'[c].userId = n.userId /\ orders'[c].source = "copy"
              /\ orders'[c].action = "buy" /\ orders'[c].sourceTradeId = n.trade
              /\ orders'[c].filledQuantity >= n.quantity]_vars

Range(f) == {f[k] : k \in 1..Len(f)}

\* C24: a step of a poll cycle that records the error of an account goes on
\* with the next account, and a cycle ends only when every account that had
\* trades to sync either was synced or is in the list of errors.
C24_AccountErrorIsolated ==
  [][/\ cycle.pc # "idle" /\ cycle'.errors # cycle.errors =>
          /\ cycle'.errors = Append(cycle.errors, Head(cycle.byAccount))
          /\ cycle'.byAccount = Tail(cycle.byAccount)
          /\ cycle'.pc = "accounts"
     /\ cycle.pc # "idle" /\ cycle'.pc = "idle" =>
          /\ Range(cycle'.errors) \cup Range(cycle'.synced)
               = {syncTrades[t].accountId : t \in cycle.selected}
          /\ Range(cycle'.errors) \cap Range(cycle'.synced) = {}]_vars

\* a cycle has returned with the error of the first account and the second
\* account synced
C24_OtherAccountSynced ==
  /\ cycle.pc = "idle" /\ cycle.runs > 0
  /\ cycle.errors = <<1>> /\ cycle.synced = <<2>>
  /\ syncTrades[2].status = "filled"

\* C25: a trade of the batch for which the broker reports no order gets
\* the status unknown and is surfaced, unless the write fails and the
\* error of the account is recorded, and an event the broker has signed
\* for an order id that matches no trade is surfaced as unknown.
C25_MismatchSurfaced ==
  [][/\ cycle.pc = "batch" /\ cycle.batch # <<>>
          /\ cycle'.pc = "batch" /\ cycle'.batch = Tail(cycle.batch)
          /\ cycle.orderMap[syncTrades[Head(cycle.batch)].brokerOrderId] = "NONE" =>
            /\ syncTrades'[Head(cycle.batch)].status = "unknown"
            /\ surfaced'[Head(cycle.batch)] = surfaced[Head(cycle.batch)] + 1
     /\ hook'.n # hook.n /\ hook'.valid /\ hook'.id \notin SyncTradeIds =>
            surfaced'[hook'.id] = surfaced[hook'.id] + 1]_vars

\* C26: when a poll cycle returns without an error, no trade that was
\* placed more than 24 hours before the cycle started is still pending (it
\* has been resolved or is unknown); and a trade is cancelled only when the
\* broker reports its order as cancelled, rejected or expired.
C26_StalePendingIsUnknown ==
  [][/\ cycle.pc # "idle" /\ cycle'.pc = "idle" /\ cycle'.errors = <<>> =>
          \A t \in SyncTradeIds :
            syncTrades'[t].createdAt < cycle.startedAt - WindowHours =>
              syncTrades'[t].status # "pending"
     /\ \A t \in SyncTradeIds :
          syncTrades'[t].status = "cancelled" =>
            brokerOrders'[syncTrades'[t].brokerOrderId].status
              \in {"CANCELLED", "REJECTED", "EXPIRED"}]_vars

\* C27: once a poll cycle has returned without an error, with no change at
\* the broker and no webhook event since it started, the steps of every
\* further cycle leave the trades, the runs of onOrderFilled and what was
\* surfaced as they are, for as long as nothing changes at the broker and
\* no webhook event arrives.
C27_PollIdempotent ==
  [][cycle.stable /\ cycle'.clean => UNCHANGED <<syncTrades, fired, surfaced>>]_vars

\* a second cycle in a row has synced an account against the unchanged
\* broker: one trade filled by the first cycle, one unknown or still pending
C27_SecondRunDone ==
  /\ cycle.pc = "idle" /\ cycle.runs = 2 /\ cycle.stable
  /\ cycle.synced # <<>>
  /\ syncTrades[1].status = "filled" /\ fired[1] = 1
  /\ syncTrades[2].status = "pending"

\* C30: a webhook request whose signature does not verify is answered with
\* 401 and leaves the trades, the runs of onOrderFilled, what was surfaced
\* and the poll cycle as they are.
C30_InvalidSignatureRejected ==
  [][hook'.n # hook.n /\ ~hook'.valid =>
       /\ hook'.code = 401
       /\ UNCHANGED <<syncTrades, fired, surfaced, cycle, brokerOrders>>]_vars

\* a request without a valid signature for a pending trade has been refused
C30_Refused ==
  /\ hook.n > 0 /\ ~hook.valid /\ hook.code = 401
  /\ hook.id \in SyncTradeIds
  /\ syncTrades[hook.id].status = "pending"

\* C28: when placeOptionOrder returns after the broker has declined the
\* order, the trade has the status rejected and the parent trade is as it
\* was before the rollback, status and aggregates.
C28_DeclineMarksRejected ==
  [][\A w \in Workers :
       wk[w].pc = "rb_parent" /\ wk'[w].pc = "idle" =>
         /\ trades'[wk[w].t].status = "rejected"
         /\ parents'[wk[w].p] = parents[wk[w].p]]_vars

\* C29: the ledger holds the trades of one user in one instrument.  When
\* the broker accepts a buy, the parent trade of the buy is the only open
\* parent trade: the order was added to the open position, if there was
\* one, and no second position was opened for it.
C29_ScaleInOnOpenPosition ==
  [][\A w \in Workers :
       /\ wk[w].pc = "broker" /\ wk[w].action = "buy"
       /\ broker'[wk[w].t] # broker[wk[w].t]
       => \A p \in ParentIds : parents[p].status = "open" => p = wk[w].p]_vars

\* C31: in every reachable state no subscription has its subscriber as its
\* trader: subscribing to oneself is refused, and no INSERT or UPDATE of the
\* table produces such a row.
C31_NoSelfSubscription ==
  \A i \in SubIds : subs[i].subscriberId # subs[i].traderId

\* a self-subscription has just been refused, after the one subscription
\* there is was cancelled
C31_SelfRefused ==
  /\ ret = "Cannot subscribe to yourself"
  /\ \E i \in SubIds : subs[i].status = "cancelled"

\* the active subscription of a user to a trader
ActiveFollower(userId, traderId) ==
  \E i \in SubIds : /\ subs[i].subscriberId = userId
                     /\ subs[i].traderId = traderId
                     /\ subs[i].status = "active"

\* the notifications of the copy flows that one step adds
NewNotifications ==
  {n \in BagToSet(notifications') :
     /\ CopiesIn(n, notifications') > CopiesIn(n, notifications)
     /\ n.type \in {"copy_trade_executed", "copy_trade_alert", "copy_trade_close"}}

\* C35: a subscription that is paused or cancelled receives no copy order,
\* no copy suggestion and no close suggestion: every copy order and every
\* such notification goes to a user whose subscription to the trader of the
\* trade is active when it is produced.
C35_PausedSkipped ==
  [][/\ (Len(orders') > Len(orders) /\ orders'[Len(orders')].source = "copy")
        => ActiveFollower(orders'[Len(orders')].userId,
                          orders[orders'[Len(orders')].sourceTradeId].userId)
     /\ \A n \in NewNotifications :
          ActiveFollower(n.userId, orders[n.trade].userId)]_vars

\* what the claim calls an invalid request: a quantity that is not positive
\* or not an integer, or an instrument that is malformed
BadRequest(input) ==
  \/ input.halves <= 0 \/ input.halves % 2 # 0
  \/ input.underlying = <<>> \/ Len(input.underlying) > 10
  \/ input.optionType \notin {"call", "put"}
  \/ input.strike <= 0
  \/ ~expirationRegex(input.expiration)

C33_OtherPositionsUnchanged ==
  [][\A p \in ParentIds :
       parents'[p] # parents[p]
       => \E w \in Workers : /\ wk[w].pc # "idle" /\ wk[w].p = p
                              /\ wk'[w] # wk[w]]_vars

\* a second position has been opened and closed next to the first, which
\* is still open with its aggregates
C33_TwoPositions ==
  /\ Len(parents) = 2
  /\ parents[1].status = "open" /\ parents[1].totalCostBasis > 0
  /\ parents[2].status = "closed"

RetryDone == retry.pc \in {"returned", "thrown"}

\* C34: syncWithRetry ends after at most maxRetries attempts: it returns at
\* the first attempt that succeeds and makes no further attempt, it waits
\* 1 s, 2 s, 4 s, ... between one attempt and the next, and after
\* maxRetries failed attempts it throws the error of the last one.
C34_RetryTerminates ==
  /\ [](/\ retry.tries <= retry.maxRetries
        /\ \A k \in 1..Len(retry.slept) : retry.slept[k] = Pow2(k - 1) * 1000
        /\ retry.pc = "try" => Len(retry.slept) = retry.tries
        /\ retry.pc = "returned"
             => retry.tries = Len(retry.errors) + 1 /\ retry.thrown = <<>>
        /\ retry.pc = "thrown"
             => /\ Len(retry.errors) = retry.maxRetries
                /\ retry.tries = retry.maxRetries
                /\ retry.thrown = <<retry.errors[retry.maxRetries]>>)
  /\ [][RetryDone => retry' = retry]_vars
  /\ (retry.pc # "idle") ~> RetryDone

\* four attempts have failed with waits of 1 s, 2 s and 4 s between them,
\* and the last error is thrown
C34_ThreeWaits ==
  /\ retry.pc = "thrown"
  /\ retry.slept = <<1000, 2000, 4000>>
  /\ retry.errors[1] # retry.errors[4]

\* C36: no copy order and no copy suggestion is produced for an opening
\* order of a trader before that order is filled: when a copied buy is
\* created or a copy notification is sent, the order of the trader it
\* follows has the status filled.
C36_CopyOnlyAfterFill ==
  [][/\ (/\ Len(orders') > Len(orders)
         /\ orders'[Len(orders')].source = "copy"
         /\ orders'[Len(orders')].action = "buy")
        => orders[orders'[Len(orders')].sourceTradeId].status = "filled"
     /\ \A n \in NewNotifications :
          n.type # "copy_trade_close" => orders[n.trade].status = "filled"]_vars

\* C37: a position that is closed, expired or cancelled keeps its status
\* for good and takes no further closing order, and no position is deleted.
C37_TerminalPositionStays ==
  [][/\ Len(parents') >= Len(parents)
     /\ \A p \in ParentIds :
          parents[p].status \in {"closed", "expired", "cancelled"}
          => /\ parents'[p].status = parents[p].status
             /\ ~(/\ Len(trades') > Len(trades)
                   /\ trades'[Len(trades')].parent = p
                   /\ trades'[Len(trades')].action = "sell")]_vars

\* C38: on every position the filled sell quantity plus the requested
\* quantity of the pending sell orders is at most the filled buy quantity,
\* so that what is left for a further sell is never below zero.
C38_SoldAndReservedWithinBought ==
  \A p \in ParentIds :
    FilledQty(p, "sell") + PendingSellQty(trades, p) <= FilledQty(p, "buy")

\* C39: for every subscriber the number of opening copy orders that
\* auto-execution has created in the day is at most the maxDailyTrades of
\* the subscription, also when several fills of the trader are dispatched
\* to the subscriber at the same time.
C39_DailyLimitInParallel ==
  \A i \in SubIds :
    subs[i].settings.autoExecute
    => Cardinality(CopyBuysOf(orders, subs[i].subscriberId))
         <= subs[i].settings.maxDailyTrades

\* the statuses of the broker after which an order does not change
TerminalStatuses == {"FILLED", "CANCELLED", "REJECTED", "EXPIRED"}

\* C40: under fair scheduling of the poll cycles every pending trade whose
\* order the broker reports with a terminal status is eventually recorded
\* with it, whatever its age: once a poll cycle has returned without an
\* error, with no change at the broker and no webhook event since it
\* started (after which further cycles change nothing), no trade is
\* pending while the broker holds its order with a terminal status.
C40_TerminalStatusRecorded ==
  cycle.stable
  => \A t \in SyncTradeIds :
       syncTrades[t].status = "pending"
       => brokerOrders[syncTrades[t].brokerOrderId].status \notin TerminalStatuses
====
